---- MODULE Spec2Model ----
(***************************************************************************)
(* Verification model of the Eco-Score recipe research system              *)
(* (bvin81/Green-RecSys-XAI): sustainability scorer, recipe preparation    *)
(* and the search / ranking pipeline.                                      *)
(*                                                                         *)
(* Conventions                                                             *)
(*  - Score values (env_score, nutri_score, sustainability_index) are      *)
(*    fixed-point integers in hundredths: 25.5 is 2550, 100 is 10000.      *)
(*    Inputs carry one decimal place (multiples of 10), as the catalog     *)
(*    data does, so every product with the weights 0.6 / 0.4 is exact.     *)
(*  - A JavaScript string is a sequence of one-character strings; an       *)
(*    accented letter is one element written with a trailing mark:         *)
(*    "a'" "e'" "i'" "o'" "u'" acute, "o:" "u:" diaeresis, "o~" "u~"       *)
(*    double acute.  The empty sequence stands for '' and for a missing    *)
(*    (undefined) string: the code only tests them for falsiness.          *)
(*  - Category names are atoms without accents ("salata" is the category   *)
(*    the code spells with an a-acute, "foetel" the main course, ...).     *)
(*  - A missing (undefined) number is the value Undefined.                 *)
(*  - prepareRecipes calls the scorer that takes a recipe object.  Its AI  *)
(*    branch needs js/modules/ai-model.js, which the repository does not   *)
(*    contain, so the model follows the revision without that branch       *)
(*    (unnamed/part_000, identical to calculateSustainabilityScoreLegacy). *)
(***************************************************************************)
EXTENDS Integers, Sequences, FiniteSets, TLC

VARIABLES
    scoreCall,    \* the last call of the scorer: arguments and results
    scorePrev,    \* the call before it
    engine,       \* the Array.prototype.sort implementation of the runtime
    rawData,      \* the records the fetch of the catalog file delivers
    phase,        \* position of the application: "boot", "ready"
    recipes,      \* the catalog: searchRecipes' first argument / app.recipes
    query,        \* the ingredientsQuery argument of the last search
    testGroup,    \* the testGroup argument / app.testGroup
    outcome,      \* what the last searchRecipes call did
    repeats,      \* how many searches in a row repeated the query before
    classifyCall, \* the last call of determineCategory: arguments, results
    evalCall,     \* the last call of evaluateSustainabilityScore
    store,        \* localStorage (user record, choice log) and the clock
    xai,          \* the explanation request: position, calls, locals, result
    load,         \* the catalog request: position, result, prepared catalog
    prepCall,     \* the last call of prepareRecipes: argument, outcomes
    ui,           \* the explanation cache and the requests in flight
    retryCall,    \* a call of retry: attempts made, position, outcome
    hashCall,     \* the last call of simpleHash and assignTestGroup
    recordCall    \* the last call of recordUserChoice: how it ended

vars == <<scoreCall, scorePrev, engine, rawData, phase, recipes, query,
          testGroup, outcome, repeats, classifyCall, evalCall, store, xai, load,
          prepCall, ui, retryCall, hashCall, recordCall>>

scoreVars == <<scoreCall, scorePrev>>
searchVars == <<engine, rawData, phase, recipes, query, testGroup, outcome,
                repeats>>
classifyVars == <<classifyCall>>
evalVars == <<evalCall>>
storeVars == <<store>>
xaiVars == <<xai>>
loadVars == <<load>>
prepVars == <<prepCall>>
uiVars == <<ui>>
retryVars == <<retryCall>>
hashVars == <<hashCall>>
recordVars == <<recordCall>>

\* the variables of the other components
\* the components modelled last, and all but them
lateVars == <<prepVars, uiVars, retryVars, hashVars, recordVars>>
earlyVars == <<scoreVars, searchVars, classifyVars, evalVars, storeVars,
               xaiVars, loadVars>>

auxVars == <<classifyVars, evalVars, storeVars, xaiVars, loadVars, lateVars>>

\* the other components before their first operation
IdleClassify == classifyCall = [made |-> FALSE]
IdleEval == evalCall = [made |-> FALSE]
IdleStore ==
    store = [user |-> [kind |-> "null"], choices |-> [kind |-> "null"],
             now |-> 0]
IdleXai ==
    xai = [pc |-> "idle", useRealApi |-> TRUE, recipe |-> 0, calls |-> 0,
           clock |-> 0, local |-> [kind |-> "none"],
           result |-> [kind |-> "none"]]
IdleLoad ==
    load = [pc |-> "idle", cause |-> "none",
            result |-> [status |-> "none", value |-> <<>>], recipes |-> <<>>]
IdlePrep == prepCall = [made |-> FALSE]
IdleUi == ui = [started |-> FALSE]
IdleRetry == retryCall = [pc |-> "idle"]
IdleHash == hashCall = [made |-> FALSE]
IdleRecord == recordCall = [made |-> FALSE]
IdleLate == IdlePrep /\ IdleUi /\ IdleRetry /\ IdleHash /\ IdleRecord
IdleAux ==
    IdleClassify /\ IdleEval /\ IdleStore /\ IdleXai /\ IdleLoad /\ IdleLate

\* the search module and the application, not in use
IdleSearch ==
    /\ engine = "insertion"
    /\ rawData = <<>>
    /\ phase = "idle"
    /\ recipes = [kind |-> "array", items |-> <<>>]
    /\ query = [kind |-> "undefined", str |-> <<>>]
    /\ testGroup = "A"
    /\ outcome = [status |-> "none", value |-> <<>>]
    /\ repeats = 0

----------------------------------------------------------------------------
(* JavaScript values *)

\* undefined, for a numeric field
Undefined == 0 - 1000000

\* NaN
NaN == 0 - 2000000

\* a value that is not a number: a function or an object
NotNumeric == 0 - 3000000

\* !x for a numeric field: undefined and 0 are falsy
Falsy(x) == x = Undefined \/ x = 0

\* x || d
OrElse(x, d) == IF Falsy(x) THEN d ELSE x

Max2(a, b) == IF a >= b THEN a ELSE b
Min2(a, b) == IF a <= b THEN a ELSE b
Abs(x) == IF x < 0 THEN 0 - x ELSE x

\* Math.round(x * 10) / 10 for a value x >= 0 in hundredths, or NaN
RoundOneDecimal(x) == IF x = NaN THEN NaN ELSE 10 * ((x + 5) \div 10)

----------------------------------------------------------------------------
(* config.js: CONFIG.SUSTAINABILITY *)

Categories ==
    {"salata", "leves", "ital", "reggeli", "koret", "egyeb", "foetel", "desszert"}

CATEGORY_MODIFIERS ==
    [c \in Categories |->
        CASE c = "salata"   -> 500
          [] c = "leves"    -> 300
          [] c = "ital"     -> 200
          [] c = "reggeli"  -> 100
          [] c = "koret"    -> 0
          [] c = "egyeb"    -> 0
          [] c = "foetel"   -> 0 - 200
          [] c = "desszert" -> 0 - 300]

\* the property names an object literal inherits from Object.prototype: the
\* lookup table[name] finds a function (an object for __proto__) under them
ObjectPrototypeNames ==
    {"constructor", "toString", "valueOf", "hasOwnProperty", "__proto__"}

----------------------------------------------------------------------------
(* sustainability.js: the scorer *)

\* modifiers[category] || 0
getCategoryModifier(category) ==
    IF category \in DOMAIN CATEGORY_MODIFIERS
    THEN OrElse(CATEGORY_MODIFIERS[category], 0)
    ELSE IF category \in ObjectPrototypeNames THEN NotNumeric ELSE 0

\* Math.max(0, Math.min(100, weightedScore + categoryModifier)): the sum with
\* a value that is not a number is a string, which Math.min turns into NaN
clampedSum(weightedScore, categoryModifier) ==
    IF categoryModifier = NotNumeric
    THEN NaN
    ELSE Max2(0, Min2(10000, weightedScore + categoryModifier))

\* calculateSustainabilityScore(envScore, nutriScore, category)
calculateSustainabilityScore(envScore, nutriScore, category) ==
    IF envScore = Undefined \/ nutriScore = Undefined
    THEN 5000
    ELSE LET normalizedEnvScore == Max2(0, Min2(10000, envScore))
             normalizedNutriScore == Max2(0, Min2(10000, nutriScore))
             environmentalComponent == 10000 - normalizedEnvScore
             nutritionalComponent == normalizedNutriScore
             weightedScore == (environmentalComponent * 6
                               + nutritionalComponent * 4) \div 10
             categoryModifier == getCategoryModifier(category)
             finalScore == clampedSum(weightedScore, categoryModifier)
         IN  RoundOneDecimal(finalScore)

\* calculateSustainabilityScoreLegacy(recipe), and the identical
\* calculateSustainabilityScore(recipe) of the recipe-object revision
calculateSustainabilityScoreLegacy(recipe) ==
    LET envScore == OrElse(recipe.env_score, 0)
        nutriScore == OrElse(recipe.nutri_score, 0)
    IN  IF envScore <= 0 \/ nutriScore <= 0
        THEN 0
        ELSE LET environmentalComponent == Max2(0, 10000 - envScore)
                 nutritionalComponent == Min2(10000, nutriScore)
                 sustainabilityScore == (environmentalComponent * 6
                                         + nutritionalComponent * 4) \div 10
                 categoryModifier == getCategoryModifier(recipe.category)
             IN  clampedSum(sustainabilityScore, categoryModifier)

----------------------------------------------------------------------------
(* The scorer called on bounded inputs *)

EnvInputs == {0 - 500, 0, 1000, 2550, 10000, 15000}
NutriInputs == {0 - 500, 0, 7820, 10000, 12000}
CategoryInputs == {"leves", "salata", "desszert", "snack", "constructor"}

NoCall == [made |-> FALSE, env |-> 0, nutri |-> 0, category |-> "egyeb",
           score |-> 0, legacy |-> 0]

ScoreInit ==
    /\ IdleAux
    /\ scoreCall = NoCall
    /\ scorePrev = NoCall
    /\ engine = "insertion"
    /\ rawData = <<>>
    /\ phase = "score"
    /\ recipes = [kind |-> "array", items |-> <<>>]
    /\ query = [kind |-> "undefined", str |-> <<>>]
    /\ testGroup = "A"
    /\ outcome = [status |-> "none", value |-> <<>>]
    /\ repeats = 0

\* one call of each scorer revision on the same arguments
Score(e, n, c) ==
    /\ scorePrev' = scoreCall
    /\ scoreCall' = [made |-> TRUE, env |-> e, nutri |-> n, category |-> c,
                     score |-> calculateSustainabilityScore(e, n, c),
                     legacy |-> calculateSustainabilityScoreLegacy(
                                   [env_score |-> e, nutri_score |-> n,
                                    category |-> c])]
    /\ UNCHANGED <<searchVars, auxVars>>

ScoreNext ==
    \E e \in EnvInputs, n \in NutriInputs, c \in CategoryInputs : Score(e, n, c)

SpecScore == ScoreInit /\ [][ScoreNext]_vars

----------------------------------------------------------------------------
(* JavaScript strings: sequences of one-character strings *)

Whitespace == {" "}

\* the characters of the model that are neither \w, nor \s, nor a letter of
\* the accented Latin ranges the regular expressions keep
Punctuation == {",", ";", "+", "&", "(", ")", "\"", "'", "-", ".", "#"}

\* String.prototype.toLowerCase, one character
ToLowerChar(c) ==
    CASE c = "B" -> "b"
      [] c = "C" -> "c"
      [] c = "E" -> "e"
      [] c = "G" -> "g"
      [] c = "H" -> "h"
      [] c = "I" -> "i"
      [] c = "L" -> "l"
      [] c = "M" -> "m"
      [] c = "R" -> "r"
      [] c = "S" -> "s"
      [] c = "U" -> "u"
      [] c = "Z" -> "z"
      [] OTHER -> c

toLowerCase(s) == [i \in 1..Len(s) |-> ToLowerChar(s[i])]

\* String.prototype.includes
includes(s, sub) ==
    \E i \in 0..(Len(s) - Len(sub)) : SubSeq(s, i + 1, i + Len(sub)) = sub

RECURSIVE trimStart(_)
trimStart(s) ==
    IF s # <<>> /\ s[1] \in Whitespace THEN trimStart(Tail(s)) ELSE s

RECURSIVE trimEnd(_)
trimEnd(s) ==
    IF s # <<>> /\ s[Len(s)] \in Whitespace
    THEN trimEnd(SubSeq(s, 1, Len(s) - 1)) ELSE s

\* String.prototype.trim
trim(s) == trimEnd(trimStart(s))

\* s.replace(/[class]/g, ' ') for the character class Class
ReplaceWithSpace(s, Class) ==
    [i \in 1..Len(s) |-> IF s[i] \in Class THEN " " ELSE s[i]]

\* s.replace(/[class]/g, '')
RECURSIVE RemoveChars(_, _)
RemoveChars(s, Class) ==
    IF s = <<>> THEN <<>>
    ELSE IF s[1] \in Class THEN RemoveChars(Tail(s), Class)
         ELSE <<s[1]>> \o RemoveChars(Tail(s), Class)

\* s.split(/[Seps]+/): the pieces between maximal runs of separators; a run
\* at the start or at the end leaves an empty piece there
RECURSIVE SplitFrom(_, _, _, _)
SplitFrom(s, Seps, cur, inRun) ==
    IF s = <<>> THEN <<cur>>
    ELSE IF s[1] \in Seps
         THEN IF inRun THEN SplitFrom(Tail(s), Seps, cur, TRUE)
              ELSE <<cur>> \o SplitFrom(Tail(s), Seps, <<>>, TRUE)
         ELSE SplitFrom(Tail(s), Seps, Append(cur, s[1]), FALSE)

split(s, Seps) == SplitFrom(s, Seps, <<>>, FALSE)

\* Array.prototype.filter
RECURSIVE SelectSeqLen(_, _)
SelectSeqLen(seq, minLen) ==
    IF seq = <<>> THEN <<>>
    ELSE IF Len(seq[1]) >= minLen
         THEN <<seq[1]>> \o SelectSeqLen(Tail(seq), minLen)
         ELSE SelectSeqLen(Tail(seq), minLen)

\* .filter((term, index, arr) => arr.indexOf(term) === index)
RECURSIVE Deduplicate(_, _)
Deduplicate(seq, seen) ==
    IF seq = <<>> THEN <<>>
    ELSE IF seq[1] \in seen THEN Deduplicate(Tail(seq), seen)
         ELSE <<seq[1]>> \o Deduplicate(Tail(seq), seen \cup {seq[1]})

Min3(a, b, c) == Min2(a, Min2(b, c))

\* helpers.js levenshteinDistance: matrix[i], built from matrix[i - 1]
\* (prevRow) for the character c = str2[i - 1]; entry j is at index j + 1
RECURSIVE levenshteinRow(_, _, _, _)
levenshteinRow(row, prevRow, str1, c) ==
    IF Len(row) = Len(str1) + 1 THEN row
    ELSE LET j == Len(row)
             entry == IF c = str1[j]
                      THEN prevRow[j]
                      ELSE Min3(prevRow[j] + 1, row[j] + 1, prevRow[j + 1] + 1)
         IN  levenshteinRow(Append(row, entry), prevRow, str1, c)

RECURSIVE levenshteinMatrix(_, _, _, _)
levenshteinMatrix(prevRow, str1, str2, i) ==
    IF i > Len(str2) THEN prevRow
    ELSE levenshteinMatrix(levenshteinRow(<<i>>, prevRow, str1, str2[i]),
                           str1, str2, i + 1)

levenshteinDistance(str1, str2) ==
    levenshteinMatrix([j \in 1..(Len(str1) + 1) |-> j - 1], str1, str2, 1)
        [Len(str1) + 1]

\* helpers.js calculateStringSimilarity, as the fraction num / den
calculateStringSimilarity(str1, str2) ==
    IF str1 = <<>> \/ str2 = <<>> THEN [num |-> 0, den |-> 1]
    ELSE LET a == toLowerCase(str1)
             b == toLowerCase(str2)
             maxLength == Max2(Len(a), Len(b))
         IN  IF a = b THEN [num |-> 1, den |-> 1]
             ELSE [num |-> maxLength - levenshteinDistance(a, b),
                   den |-> maxLength]

\* Math.round(n / d * k) for n, d, k >= 0, d > 0
RoundRatio(n, d, k) == (2 * n * k + d) \div (2 * d)

----------------------------------------------------------------------------
(* recipe-search.js: query and ingredient preprocessing *)

\* CONFIG.SEARCH.MAX_RESULTS
MAX_RESULTS == 6

\* a query argument: [kind |-> "string", str |-> s], or a value that is no
\* string: [kind |-> "undefined"], [kind |-> "number"] (a non-zero number)
StringValue(s) == [kind |-> "string", str |-> s]
UndefinedValue == [kind |-> "undefined", str |-> <<>>]
NumberValue == [kind |-> "number", str |-> <<>>]

\* !query
FalsyValue(v) == v.kind = "undefined" \/ (v.kind = "string" /\ v.str = <<>>)

TrimAll(parts) == [i \in 1..Len(parts) |-> trim(parts[i])]

preprocessSearchQuery(q) ==
    IF FalsyValue(q) \/ q.kind # "string"
    THEN <<>>
    ELSE LET lowered == trim(toLowerCase(q.str))
             cleaned == ReplaceWithSpace(lowered, Punctuation)
             parts == split(cleaned, {",", ";", "+", "&"} \cup Whitespace)
             terms == SelectSeqLen(TrimAll(parts), 2)
         IN  Deduplicate(terms, {})

\* .replace(/^c\s*\(/i, '')
StripListHead(s) ==
    IF s # <<>> /\ s[1] = "c"
    THEN LET rest == trimStart(Tail(s))
         IN  IF rest # <<>> /\ rest[1] = "(" THEN Tail(rest) ELSE s
    ELSE s

\* .replace(/\)$/, '')
StripListTail(s) ==
    IF s # <<>> /\ s[Len(s)] = ")" THEN SubSeq(s, 1, Len(s) - 1) ELSE s

preprocessRecipeIngredients(ingredients) ==
    IF ingredients = <<>>
    THEN <<>>
    ELSE LET lowered == toLowerCase(ingredients)
             unwrapped == StripListTail(StripListHead(lowered))
             unquoted == RemoveChars(unwrapped, {"\"", "'"})
             cleaned == ReplaceWithSpace(unquoted, Punctuation \ {","})
             parts == split(cleaned, {",", ";"})
         IN  SelectSeqLen(TrimAll(parts), 2)

----------------------------------------------------------------------------
(* recipe-search.js: matching *)

\* the body of the inner loop of calculateMatchScore for one ingredient;
\* acc carries exactMatches, partialMatches, relevanceScore and termMatched,
\* similarity is calculateStringSimilarity(ingredient, searchTerm)
matchIngredient(acc, ingredient, searchTerm, similarity) ==
    IF ingredient = searchTerm
    THEN [acc EXCEPT !.exactMatches = @ + 1,
                     !.relevanceScore = @ + 10,
                     !.termMatched = TRUE]
    ELSE IF includes(ingredient, searchTerm) \/ includes(searchTerm, ingredient)
    THEN IF ~acc.termMatched
         THEN [acc EXCEPT !.partialMatches = @ + 1,
                          !.relevanceScore = @ + 5,
                          !.termMatched = TRUE]
         ELSE acc
    ELSE IF 10 * similarity.num > 7 * similarity.den /\ ~acc.termMatched
    THEN [acc EXCEPT !.partialMatches = @ + 1,
                     !.relevanceScore =
                        @ + RoundRatio(similarity.num, similarity.den, 3),
                     !.termMatched = TRUE]
    ELSE acc

\* the inner loop of calculateMatchScore: one search term against the
\* ingredients in order
RECURSIVE MatchTerm(_, _, _)
MatchTerm(ingredients, searchTerm, acc) ==
    IF ingredients = <<>> THEN acc
    ELSE MatchTerm(Tail(ingredients), searchTerm,
                   matchIngredient(acc, ingredients[1], searchTerm,
                       calculateStringSimilarity(ingredients[1], searchTerm)))

\* the name check that follows the inner loop
matchName(acc, name, searchTerm) ==
    IF ~acc.termMatched /\ name # <<>>
       /\ includes(toLowerCase(name), searchTerm)
    THEN [acc EXCEPT !.partialMatches = @ + 1, !.relevanceScore = @ + 2]
    ELSE acc

\* the outer loop of calculateMatchScore
RECURSIVE MatchTerms(_, _, _, _)
MatchTerms(recipe, recipeIngredients, searchTerms, acc) ==
    IF searchTerms = <<>> THEN acc
    ELSE MatchTerms(recipe, recipeIngredients, Tail(searchTerms),
                    matchName(MatchTerm(recipeIngredients, searchTerms[1],
                                        [acc EXCEPT !.termMatched = FALSE]),
                              recipe.name, searchTerms[1]))

NoMatch == [exactMatches |-> 0, partialMatches |-> 0, relevanceScore |-> 0,
            termMatched |-> FALSE]

\* the result of calculateMatchScore from the counters m of the loops
matchTotals(m, termCount) ==
    [totalScore |-> m.relevanceScore
                    + RoundRatio(m.exactMatches + m.partialMatches,
                                 termCount, 5),
     exactMatches |-> m.exactMatches,
     partialMatches |-> m.partialMatches,
     relevanceScore |-> m.relevanceScore]

calculateMatchScore(recipe, searchTerms) ==
    IF recipe.ingredients = <<>>
    THEN [totalScore |-> 0, exactMatches |-> 0, partialMatches |-> 0,
          relevanceScore |-> 0]
    ELSE matchTotals(
             MatchTerms(recipe,
                        preprocessRecipeIngredients(recipe.ingredients),
                        searchTerms, NoMatch),
             Len(searchTerms))

\* the body of the forEach of findMatchingRecipes: what it pushes
pushMatch(recipe, matchScore) ==
    IF matchScore.totalScore > 0
    THEN <<[recipe |-> recipe,
            matchScore |-> matchScore.totalScore,
            exactMatches |-> matchScore.exactMatches,
            partialMatches |-> matchScore.partialMatches,
            relevanceScore |-> matchScore.relevanceScore]>>
    ELSE <<>>

RECURSIVE findMatchingRecipes(_, _)
findMatchingRecipes(items, searchTerms) ==
    IF items = <<>> THEN <<>>
    ELSE pushMatch(items[1], calculateMatchScore(items[1], searchTerms))
         \o findMatchingRecipes(Tail(items), searchTerms)

----------------------------------------------------------------------------
(* recipe-search.js: ranking *)

\* the comparison function of sortByRelevance
sortByRelevanceCompare(a, b) ==
    IF b.matchScore # a.matchScore THEN b.matchScore - a.matchScore
    ELSE IF b.exactMatches # a.exactMatches
         THEN b.exactMatches - a.exactMatches
         ELSE b.partialMatches - a.partialMatches

\* the comparison function of sortByRelevanceAndSustainability; the combined
\* scores are in thousandths
sortByRelevanceAndSustainabilityCompare(a, b) ==
    LET sustainA == OrElse(a.recipe.sustainability_index, 5000)
        sustainB == OrElse(b.recipe.sustainability_index, 5000)
        scoreA == a.matchScore * 700 + sustainA * 3
        scoreB == b.matchScore * 700 + sustainB * 3
    IN  IF Abs(scoreB - scoreA) > 1000 THEN scoreB - scoreA
        ELSE IF Abs(sustainB - sustainA) > 500 THEN sustainB - sustainA
        ELSE b.matchScore - a.matchScore

\* the comparison function of sortBySustainabilityPriority
sortBySustainabilityPriorityCompare(a, b) ==
    LET sustainA == OrElse(a.recipe.sustainability_index, 5000)
        sustainB == OrElse(b.recipe.sustainability_index, 5000)
        envA == OrElse(a.recipe.env_score, 5000)
        envB == OrElse(b.recipe.env_score, 5000)
    IN  IF Abs(sustainB - sustainA) > 300 THEN sustainB - sustainA
        ELSE IF Abs(b.matchScore - a.matchScore) > 2
             THEN b.matchScore - a.matchScore
             ELSE envA - envB

Compare(strategy, a, b) ==
    CASE strategy = "B" -> sortByRelevanceAndSustainabilityCompare(a, b)
      [] strategy = "C" -> sortBySustainabilityPriorityCompare(a, b)
      [] OTHER -> sortByRelevanceCompare(a, b)

\* Array.prototype.sort.  ECMAScript fixes the result (the stable sorted
\* order) only for a consistent comparison function; otherwise the order is
\* implementation-defined.  The runtime's implementation is one of two
\* stable algorithms, fixed for the whole run: insertion sort or merge sort.
Engines == {"insertion", "merge"}

RECURSIVE InsertSorted(_, _, _)
InsertSorted(sorted, x, strategy) ==
    IF sorted = <<>> THEN <<x>>
    ELSE LET last == sorted[Len(sorted)]
         IN  IF Compare(strategy, last, x) > 0
             THEN Append(InsertSorted(SubSeq(sorted, 1, Len(sorted) - 1),
                                      x, strategy), last)
             ELSE Append(sorted, x)

RECURSIVE InsertionSort(_, _)
InsertionSort(arr, strategy) ==
    IF arr = <<>> THEN <<>>
    ELSE InsertSorted(InsertionSort(SubSeq(arr, 1, Len(arr) - 1), strategy),
                      arr[Len(arr)], strategy)

RECURSIVE Merge(_, _, _)
Merge(left, right, strategy) ==
    IF left = <<>> THEN right
    ELSE IF right = <<>> THEN left
    ELSE IF Compare(strategy, left[1], right[1]) <= 0
         THEN <<left[1]>> \o Merge(Tail(left), right, strategy)
         ELSE <<right[1]>> \o Merge(left, Tail(right), strategy)

RECURSIVE MergeSort(_, _)
MergeSort(arr, strategy) ==
    IF Len(arr) <= 1 THEN arr
    ELSE LET mid == Len(arr) \div 2
         IN  Merge(MergeSort(SubSeq(arr, 1, mid), strategy),
                   MergeSort(SubSeq(arr, mid + 1, Len(arr)), strategy),
                   strategy)

ArraySort(arr, strategy, eng) ==
    IF eng = "insertion" THEN InsertionSort(arr, strategy)
    ELSE MergeSort(arr, strategy)

sortByRelevance(matchResults, eng) == ArraySort(matchResults, "default", eng)

sortByRelevanceAndSustainability(matchResults, eng) ==
    ArraySort(matchResults, "B", eng)

sortBySustainabilityPriority(matchResults, eng) ==
    ArraySort(matchResults, "C", eng)

\* helpers.js shuffleArray (Fisher-Yates).  rnd[i] is the index
\* Math.floor(Math.random() * (i + 1)) drawn for position i (0-based)
Swap(arr, i, j) == [arr EXCEPT ![i] = arr[j], ![j] = arr[i]]

RECURSIVE shuffleFrom(_, _, _)
shuffleFrom(shuffled, i, rnd) ==
    IF i <= 0 THEN shuffled
    ELSE shuffleFrom(Swap(shuffled, i + 1, rnd[i] + 1), i - 1, rnd)

shuffleArray(array, rnd) == shuffleFrom(array, Len(array) - 1, rnd)

\* every sequence of draws Math.random can deliver for an array of length n
RECURSIVE RandomDraws(_)
RandomDraws(n) ==
    IF n <= 1 THEN {<<>>}
    ELSE {Append(d, j) : d \in RandomDraws(n - 1), j \in 0..(n - 1)}

RecipesOf(results) == [i \in 1..Len(results) |-> results[i].recipe]

applySortingStrategy_ShuffleB(matchResults, group, eng, rnd) ==
    RecipesOf(CASE group \in {"A", "B"} -> shuffleArray(matchResults, rnd)
                [] group = "C" -> sortBySustainabilityPriority(matchResults, eng)
                [] OTHER -> sortByRelevance(matchResults, eng))

applySortingStrategy(matchResults, group, eng, rnd) ==
    RecipesOf(CASE group = "A" -> shuffleArray(matchResults, rnd)
                [] group = "B" ->
                    sortByRelevanceAndSustainability(matchResults, eng)
                [] group = "C" -> sortBySustainabilityPriority(matchResults, eng)
                [] OTHER -> sortByRelevance(matchResults, eng))

----------------------------------------------------------------------------
(* recipe-search.js: searchRecipes *)

\* a catalog argument: an array, or a value that is none:
\*   "undefined"  undefined / null
\*   "object"     an object without a length
\*   "string"     a non-empty string: it has a length and no forEach
ArrayValue(items) == [kind |-> "array", items |-> items]
NonArrayValue(k) == [kind |-> k, items |-> <<>>]

\* !recipes || !recipes.length
NoRecipes(r) ==
    \/ r.kind \in {"undefined", "object"}
    \/ r.kind = "array" /\ r.items = <<>>

Returned(list) == [status |-> "returned", value |-> list]
Thrown == [status |-> "thrown", value |-> <<>>]
NotCalled == [status |-> "none", value |-> <<>>]

slice_All(arr, n) == arr

\* Array.prototype.slice(0, n)
slice(arr, n) == SubSeq(arr, 1, Min2(Len(arr), n))

\* steps 1 and 2 of searchRecipes, searchTerms being the processed query
matchByTerms(r, searchTerms) ==
    IF searchTerms = <<>> THEN [status |-> "empty", matchResults |-> <<>>]
    ELSE IF r.kind # "array"
    THEN [status |-> "thrown", matchResults |-> <<>>]
         \* recipes.forEach is not a function
    ELSE [status |-> "matched",
          matchResults |-> findMatchingRecipes(r.items, searchTerms)]

\* searchRecipes up to step 2: the guards and the matching
searchMatches(r, q) ==
    IF NoRecipes(r) \/ FalsyValue(q)
    THEN [status |-> "empty", matchResults |-> <<>>]
    ELSE matchByTerms(r, preprocessSearchQuery(q))

\* searchRecipes from step 3 on: ranking and limiting
rankMatches(m, group, eng, rnd) ==
    CASE m.status = "empty" -> Returned(<<>>)
      [] m.status = "thrown" -> Thrown
      [] OTHER ->
            Returned(slice(applySortingStrategy(m.matchResults, group, eng,
                                                rnd),
                           OrElse(MAX_RESULTS, 10)))

searchRecipes(r, q, group, eng, rnd) ==
    rankMatches(searchMatches(r, q), group, eng, rnd)

\* the match results the call searchRecipes(r, q, ...) ranks
Candidates(r, q) == searchMatches(r, q).matchResults

\* the two arrays alive during searchRecipes: recipes, the catalog the caller
\* passed, and matchResults, the array findMatchingRecipes fills with push;
\* the recipes are listed with their match scores, which is what a
\* comparison function would read from them
SearchHeap(items, searchTerms) ==
    [recipes |->
         [i \in 1..Len(items) |->
             LET matchScore == calculateMatchScore(items[i], searchTerms)
             IN  [recipe |-> items[i],
                  matchScore |-> matchScore.totalScore,
                  exactMatches |-> matchScore.exactMatches,
                  partialMatches |-> matchScore.partialMatches,
                  relevanceScore |-> matchScore.relevanceScore]],
     matchResults |-> findMatchingRecipes(items, searchTerms)]

\* Array.prototype.sort reorders the array it is called on; here on recipes
sortInPlace_Catalog(heap, strategy, eng) ==
    [heap EXCEPT !.recipes = ArraySort(@, strategy, eng)]

\* matchResults.sort(...) of sortByRelevance, sortByRelevanceAndSustainability
\* and sortBySustainabilityPriority
sortInPlace(heap, strategy, eng) ==
    [heap EXCEPT !.matchResults = ArraySort(@, strategy, eng)]

\* the catalog after searchRecipes(r, q, group): shuffleArray works on the
\* copy [...array], slice and map return new arrays
catalogAfterSearch(r, q, group, eng) ==
    IF searchMatches(r, q).status # "matched" \/ group = "A"
    THEN r
    ELSE ArrayValue(RecipesOf(
             sortInPlace(SearchHeap(r.items, preprocessSearchQuery(q)),
                         IF group \in {"B", "C"} THEN group ELSE "default",
                         eng).recipes))

----------------------------------------------------------------------------
(* searchRecipes called once on bounded arguments *)

\* recipes of the shape the catalog file has; one lacks its ingredients, one
\* lacks name, scores and category and lists its ingredients as c("..", "..")
RecipePool == <<
    [recipeid |-> 1, name |-> <<"b", "a", "b">>,
     ingredients |-> <<>>,
     env_score |-> 2000, nutri_score |-> 8000, sustainability_index |-> 8000,
     category |-> "leves"],
    [recipeid |-> 2, name |-> <<"l", "e", "v", "e", "s">>,
     ingredients |-> <<"s", "o'", ",", " ", "b", "a", "b">>,
     env_score |-> 3000, nutri_score |-> 7000, sustainability_index |-> 7000,
     category |-> "leves"],
    [recipeid |-> 3, name |-> <<"h", "a", "l">>,
     ingredients |-> <<"s", "o'", "s", " ", "h", "a", "l">>,
     env_score |-> 4000, nutri_score |-> 7000, sustainability_index |-> 7200,
     category |-> "foetel"],
    [recipeid |-> 4, name |-> <<"r", "i", "z", "s">>,
     ingredients |-> <<"s", "o'", ",", " ", "h", "a", "l">>,
     env_score |-> 8000, nutri_score |-> 3000, sustainability_index |-> 2500,
     category |-> "foetel"],
    [recipeid |-> 5, name |-> <<"s", "o'">>,
     ingredients |-> <<"s", "o'">>,
     env_score |-> 5000, nutri_score |-> 6000, sustainability_index |-> 6000,
     category |-> "egyeb"],
    [recipeid |-> 6, name |-> <<>>,
     ingredients |-> <<"c", "(", "\"", "b", "o", "r", "s", "\"", ",", " ", "\"", "s", "o'", "\"", ")">>,
     env_score |-> Undefined, nutri_score |-> Undefined, sustainability_index |-> Undefined,
     category |-> ""],
    [recipeid |-> 7, name |-> <<"B", "a", "b">>,
     ingredients |-> <<"s", "o'", ";", " ", "B", "a", "b">>,
     env_score |-> 9000, nutri_score |-> 1000, sustainability_index |-> 0,
     category |-> "koret"],
    [recipeid |-> 8, name |-> <<"m", "e'", "z">>,
     ingredients |-> <<"s", "o'", ",", " ", "m", "e'", "z">>,
     env_score |-> 1000, nutri_score |-> 9000, sustainability_index |-> 9000,
     category |-> "desszert"] >>

\* the longest catalog handed to searchRecipes
MaxCatalog == 7

\* catalogs: runs of consecutive pool entries
CatalogInputs ==
    {ArrayValue(<<>>)} \cup
    {ArrayValue(SubSeq(RecipePool, i, Min2(i + n - 1, Len(RecipePool)))) :
        i \in 1..Len(RecipePool),
        n \in 1..Min2(MaxCatalog, Len(RecipePool))} \cup
    {NonArrayValue("undefined"), NonArrayValue("object"),
     NonArrayValue("string")}

QueryInputs ==
    {StringValue(<<"b", "a", "b">>),
     StringValue(<<"s", "o'">>),
     StringValue(<<"B", "a", "b", ";", " ", "h", "a", "l">>),
     StringValue(<<"b">>),
     StringValue(<<>>),
     StringValue(<<"t", "e", "j">>),
     StringValue(<<"b", "o", "r", "z">>),
     UndefinedValue, NumberValue}

GroupInputs == {"A", "B", "C", "undefined"}

IdleScore == scoreCall = NoCall /\ scorePrev = NoCall

SearchInit ==
    /\ IdleScore
    /\ IdleAux
    /\ engine \in Engines
    /\ rawData = <<>>
    /\ phase = "call"
    /\ recipes \in CatalogInputs
    /\ query \in QueryInputs
    /\ testGroup \in GroupInputs
    /\ outcome = NotCalled
    /\ repeats = 0

\* one call searchRecipes(recipes, query, testGroup), its two halves in
\* turn; rnd are the values
\* Math.random delivers: it is called by shuffleArray only, that is for
\* group A only
SearchRecipes ==
    /\ phase = "call"
    /\ outcome = NotCalled
    /\ LET m == searchMatches(recipes, query)
       IN  \E rnd \in RandomDraws(IF testGroup = "A"
                                  THEN Len(m.matchResults) ELSE 0) :
              outcome' = rankMatches(m, testGroup, engine, rnd)
    /\ recipes' = catalogAfterSearch(recipes, query, testGroup, engine)
    /\ UNCHANGED <<scoreVars, auxVars, engine, rawData, phase, query,
                   testGroup, repeats>>

SearchNext == SearchRecipes

SpecSearch == SearchInit /\ [][SearchNext]_vars

----------------------------------------------------------------------------
(* sustainability.js: determineCategory(recipe) *)

\* categoryRules, in the order Object.entries walks them
categoryRules == <<
    [category |-> "leves", keywords |-> <<
        <<"l", "e", "v", "e", "s">>,
        <<"h", "u'", "s", "l", "e'">>,
        <<"a", "l", "a", "p", "l", "e'">>,
        <<"s", "o", "u", "p">>,
        <<"b", "r", "o", "t", "h">> >>],
    [category |-> "salata", keywords |-> <<
        <<"s", "a", "l", "a'", "t", "a">>,
        <<"s", "a", "l", "a", "d">>,
        <<"u", "b", "o", "r", "k", "a">>,
        <<"l", "e", "t", "t", "u", "c", "e">>,
        <<"v", "e", "g", "y", "e", "s">> >>],
    [category |-> "foetel", keywords |-> <<
        <<"c", "s", "i", "r", "k", "e">>,
        <<"c", "h", "i", "c", "k", "e", "n">>,
        <<"m", "a", "r", "h", "a", "h", "u'", "s">>,
        <<"b", "e", "e", "f">>,
        <<"h", "a", "l">>,
        <<"f", "i", "s", "h">>,
        <<"s", "e", "r", "t", "e'", "s", "h", "u'", "s">>,
        <<"p", "o", "r", "k">>,
        <<"t", "e'", "s", "z", "t", "a">>,
        <<"p", "a", "s", "t", "a">>,
        <<"r", "i", "z", "s">>,
        <<"r", "i", "c", "e">>,
        <<"s", "t", "e", "a", "k">>,
        <<"s", "c", "h", "n", "i", "t", "z", "e", "l">> >>],
    [category |-> "desszert", keywords |-> <<
        <<"c", "u", "k", "o", "r">>,
        <<"s", "u", "g", "a", "r">>,
        <<"m", "e'", "z">>,
        <<"h", "o", "n", "e", "y">>,
        <<"c", "s", "o", "k", "o", "l", "a'", "d", "e'">>,
        <<"c", "h", "o", "c", "o", "l", "a", "t", "e">>,
        <<"s", "u:", "t", "e", "m", "e'", "n", "y">>,
        <<"c", "a", "k", "e">>,
        <<"t", "o", "r", "t", "a">>,
        <<"k", "e", "k", "s", "z">> >>],
    [category |-> "ital", keywords |-> <<
        <<"s", "m", "o", "o", "t", "h", "i", "e">>,
        <<"j", "u", "i", "c", "e">>,
        <<"t", "e", "a">>,
        <<"c", "o", "f", "f", "e", "e">>,
        <<"i", "t", "a", "l">>,
        <<"s", "h", "a", "k", "e">>,
        <<"k", "o", "k", "t", "e'", "l">> >>],
    [category |-> "reggeli", keywords |-> <<
        <<"t", "o", "j", "a'", "s">>,
        <<"e", "g", "g">>,
        <<"o", "m", "l", "e", "t", "t">>,
        <<"p", "a", "n", "c", "a", "k", "e">>,
        <<"m", "u:", "z", "l", "i">>,
        <<"c", "e", "r", "e", "a", "l">>,
        <<"z", "a", "b", "k", "a'", "s", "a">>,
        <<"p", "i", "r", "i'", "t", "o'", "s">> >>],
    [category |-> "koret", keywords |-> <<
        <<"b", "u", "r", "g", "o", "n", "y", "a">>,
        <<"p", "o", "t", "a", "t", "o">>,
        <<"s", "a'", "r", "g", "a", "r", "e'", "p", "a">>,
        <<"c", "a", "r", "r", "o", "t">>,
        <<"b", "r", "o", "k", "k", "o", "l", "i">>,
        <<"s", "p", "a'", "r", "g", "a">>,
        <<"z", "o:", "l", "d", "s", "e'", "g", " ", "k", "o:", "r", "e",
            "t">> >>] >>

RECURSIVE firstCategory(_, _)
firstCategory(text, rules) ==
    IF rules = <<>> THEN "egyeb"
    ELSE IF \E k \in 1..Len(rules[1].keywords) :
                includes(text, rules[1].keywords[k])
         THEN rules[1].category
         ELSE firstCategory(text, Tail(rules))

determineCategory(recipe) ==
    LET name == toLowerCase(recipe.name)
        ingredients == toLowerCase(recipe.ingredients)
        text == name \o <<" ">> \o ingredients
    IN  firstCategory(text, categoryRules)

----------------------------------------------------------------------------
(* data-loader.js *)

loadFallbackData == <<
    [recipeid |-> 1,
     name |-> <<"E", "g", "y", "s", "z", "e", "r", "u~", " ", "p", "a", "r",
               "a", "d", "i", "c", "s", "o", "m", "l", "e", "v", "e", "s">>,
     ingredients |-> <<"p", "a", "r", "a", "d", "i", "c", "s", "o", "m",
                      ",", " ", "h", "a", "g", "y", "m", "a", ",", " ",
                      "s", "o'", ",", " ", "b", "o", "r", "s", ",", " ",
                      "f", "o", "k", "h", "a", "g", "y", "m", "a">>,
     env_score |-> 2550, nutri_score |-> 7820, sustainability_index |-> 7000,
     category |-> "leves"],
    [recipeid |-> 2,
     name |-> <<"C", "s", "i", "r", "k", "e", "m", "e", "l", "l", " ", "r",
               "i", "z", "i", "b", "i", "z", "i", "v", "e", "l">>,
     ingredients |-> <<"c", "s", "i", "r", "k", "e", "m", "e", "l", "l",
                      ",", " ", "r", "i", "z", "s", ",", " ", "b", "o",
                      "r", "s", "o'", ",", " ", "s", "a'", "r", "g", "a",
                      "r", "e'", "p", "a", ",", " ", "s", "o'", ",", " ",
                      "b", "o", "r", "s">>,
     env_score |-> 5830, nutri_score |-> 6510, sustainability_index |-> 4500,
     category |-> "foetel"],
    [recipeid |-> 3,
     name |-> <<"U", "b", "o", "r", "k", "a", "s", "a", "l", "a'", "t", "a">>,
     ingredients |-> <<"u", "b", "o", "r", "k", "a", ",", " ", "t", "e",
                      "j", "f", "o:", "l", ",", " ", "k", "a", "p", "o",
                      "r", ",", " ", "s", "o'", ",", " ", "b", "o", "r",
                      "s", ",", " ", "c", "u", "k", "o", "r">>,
     env_score |-> 1520, nutri_score |-> 7280, sustainability_index |-> 8500,
     category |-> "salata"],
    [recipeid |-> 4,
     name |-> <<"S", "p", "e", "n", "o'", "t", "o", "s", " ", "l", "a", "s",
               "a", "g", "n", "e">>,
     ingredients |-> <<"l", "a", "s", "a", "g", "n", "e", " ", "t", "e'",
                      "s", "z", "t", "a", ",", " ", "s", "p", "e", "n",
                      "o'", "t", ",", " ", "r", "i", "c", "o", "t", "t",
                      "a", ",", " ", "m", "o", "z", "z", "a", "r", "e",
                      "l", "l", "a", ",", " ", "p", "a", "r", "a", "d",
                      "i", "c", "s", "o", "m">>,
     env_score |-> 4210, nutri_score |-> 5580, sustainability_index |-> 6200,
     category |-> "foetel"],
    [recipeid |-> 5,
     name |-> <<"G", "y", "u:", "m", "o:", "l", "c", "s", "s", "a", "l",
               "a'", "t", "a">>,
     ingredients |-> <<"a", "l", "m", "a", ",", " ", "b", "a", "n", "a'",
                      "n", ",", " ", "n", "a", "r", "a", "n", "c", "s",
                      ",", " ", "s", "z", "o~", "l", "o~", ",", " ", "m",
                      "e'", "z", ",", " ", "c", "i", "t", "r", "o", "m",
                      "l", "e'">>,
     env_score |-> 1870, nutri_score |-> 8530, sustainability_index |-> 8800,
     category |-> "desszert"],
    [recipeid |-> 6,
     name |-> <<"Z", "o:", "l", "d", "s", "e'", "g", "l", "e", "v", "e", "s">>,
     ingredients |-> <<"s", "a'", "r", "g", "a", "r", "e'", "p", "a", ",",
                      " ", "z", "e", "l", "l", "e", "r", ",", " ", "b",
                      "u", "r", "g", "o", "n", "y", "a", ",", " ", "h",
                      "a", "g", "y", "m", "a", ",", " ", "p", "e", "t",
                      "r", "e", "z", "s", "e", "l", "y", "e", "m">>,
     env_score |-> 2040, nutri_score |-> 7690, sustainability_index |-> 8200,
     category |-> "leves"] >>

Digit(d) == <<"0", "1", "2", "3", "4", "5", "6", "7", "8", "9">>[d + 1]

\* String(n) for n >= 0
RECURSIVE NumberToString(_)
NumberToString(n) ==
    IF n < 10 THEN <<Digit(n)>>
    ELSE Append(NumberToString(n \div 10), Digit(n % 10))

\* the body of the forEach of prepareRecipes for the record at index
\* (0-based); the record as it is pushed
prepareRecord(recipe, index) ==
    LET calculatedSustainability == calculateSustainabilityScoreLegacy(recipe)
        rescored == [recipe EXCEPT
                        !.sustainability_index = calculatedSustainability]
        classified == IF rescored.category = ""
                      THEN [rescored EXCEPT
                               !.category = determineCategory(rescored)]
                      ELSE rescored
    IN  [classified EXCEPT
            !.name = IF @ = <<>>
                     THEN <<"R", "e", "c", "e", "p", "t", " ", "#">>
                          \o NumberToString(OrElse(recipe.recipeid, index + 1))
                     ELSE @,
            !.ingredients = IF @ = <<>>
                            THEN <<"I", "s", "m", "e", "r", "e", "t", "l",
                                "e", "n", " ", "h", "o", "z", "z", "a'",
                                "v", "a", "l", "o'", "k">>
                            ELSE @]

RECURSIVE prepareFrom(_, _)
prepareFrom(items, index) ==
    IF index >= Len(items) THEN <<>>
    ELSE LET recipe == items[index + 1]
             envScore == OrElse(recipe.env_score, 0)
             nutriScore == OrElse(recipe.nutri_score, 0)
         IN  IF envScore <= 0 /\ nutriScore <= 0
             THEN prepareFrom(items, index + 1)
             ELSE <<prepareRecord(recipe, index)>>
                  \o prepareFrom(items, index + 1)

prepareRecipes(items) == prepareFrom(items, 0)

----------------------------------------------------------------------------
(* main.js: the application *)

\* raw records of the shape the catalog file has: with and without a
\* category, with a category that is in no table, with a
\* sustainability_index that is wrong or missing, with scores that are 0 or
\* missing
RawPool == <<
    [recipeid |-> 1, name |-> <<"b", "a", "b", "l", "e", "v", "e", "s">>,
     ingredients |-> <<"b", "a", "b", ",", " ", "s", "o'">>,
     env_score |-> 2000, nutri_score |-> 8000,
     sustainability_index |-> 1230, category |-> ""],
    [recipeid |-> 2, name |-> <<"h", "a", "l">>,
     ingredients |-> <<"h", "a", "l", ",", " ", "s", "o'">>,
     env_score |-> 4000, nutri_score |-> 7000,
     sustainability_index |-> Undefined, category |-> "foetel"],
    [recipeid |-> 3, name |-> <<>>,
     ingredients |-> <<>>,
     env_score |-> 0, nutri_score |-> 0,
     sustainability_index |-> 5000, category |-> ""],
    [recipeid |-> 4, name |-> <<"m", "e'", "z">>,
     ingredients |-> <<"m", "e'", "z", ",", " ", "s", "o'">>,
     env_score |-> 0, nutri_score |-> 9000,
     sustainability_index |-> 5000, category |-> ""],
    [recipeid |-> 5, name |-> <<"s", "o'">>,
     ingredients |-> <<"s", "o'">>,
     env_score |-> 5000, nutri_score |-> 6000,
     sustainability_index |-> 6000, category |-> "egyeb"],
    [recipeid |-> Undefined, name |-> <<>>,
     ingredients |-> <<>>,
     env_score |-> 3000, nutri_score |-> Undefined,
     sustainability_index |-> Undefined, category |-> ""],
    [recipeid |-> 7, name |-> <<"c", "h", "i", "p", "s">>,
     ingredients |-> <<"s", "o'">>,
     env_score |-> 6000, nutri_score |-> 2000,
     sustainability_index |-> Undefined, category |-> "snack"] >>

\* the longest catalog file the application loads
MaxRaw == 3

\* what the fetch of the catalog file can deliver: runs of consecutive
\* entries of RawPool
RawInputs ==
    {<<>>} \cup
    {SubSeq(RawPool, i, Min2(i + n - 1, Len(RawPool))) :
        i \in 1..Len(RawPool), n \in 1..Min2(MaxRaw, Len(RawPool))}

\* what the user types into the search field
SearchInputs ==
    {<<"s", "o'">>,
     <<" ", "h", "a", "l", " ">>,
     <<"t", "e", "j">>,
     <<" ", " ">>,
     <<"b", "a", "b", ",", " ", "s", "o'">>}

\* the longest run of repeated searches that is counted
MaxRepeats == 1

\* the state the constructor leaves: recipes = [], testGroup = null
Init ==
    /\ IdleScore
    /\ IdleAux
    /\ engine \in Engines
    /\ rawData \in RawInputs
    /\ phase = "boot"
    /\ recipes = ArrayValue(<<>>)
    /\ query = UndefinedValue
    /\ testGroup = "null"
    /\ outcome = NotCalled
    /\ repeats = 0

\* loadRecipeData: the fetched records, or the fallback records when the
\* fetch fails
loadRecipeData(fetchOk) == IF fetchOk THEN rawData ELSE loadFallbackData

\* initializeApp: load, prepare, then checkExistingUser; savedGroup is the
\* test group of the user kept in localStorage, "null" when there is none
initializeApp(fetchOk, savedGroup) ==
    /\ phase = "boot"
    /\ recipes' = ArrayValue(prepareRecipes(loadRecipeData(fetchOk)))
    /\ IF savedGroup # "null"
       THEN testGroup' = savedGroup /\ phase' = "ready"
       ELSE testGroup' = testGroup /\ phase' = "registration"
    /\ rawData' = <<>>      \* the response is consumed
    /\ UNCHANGED <<scoreVars, auxVars, engine, query, outcome, repeats>>

\* handleRegistration: registerUser rejects an invalid email address;
\* otherwise assignTestGroup picks groups[hash % 3] for the fresh user id
handleRegistration(emailValid, hash) ==
    /\ phase = "registration"
    /\ IF emailValid
       THEN /\ testGroup' = <<"A", "B", "C">>[(hash % 3) + 1]
            /\ phase' = "ready"
       ELSE UNCHANGED <<testGroup, phase>>
    /\ UNCHANGED <<scoreVars, auxVars, engine, rawData, recipes, query, outcome,
                   repeats>>

\* handleSearch: input is the content of the search field; the call of
\* searchRecipes is made of its two halves, rnd are the values Math.random
\* delivers when it is called
handleSearch(input) ==
    /\ phase = "ready"
    /\ LET ingredients == StringValue(trim(input))
           m == searchMatches(recipes, ingredients)
       IN  IF FalsyValue(ingredients)
           THEN UNCHANGED <<query, outcome, repeats>>
           ELSE /\ query' = ingredients
                /\ repeats' = IF query = ingredients
                              THEN Min2(repeats + 1, MaxRepeats) ELSE 0
                /\ \E rnd \in RandomDraws(Len(m.matchResults)) :
                      outcome' = rankMatches(m, testGroup, engine, rnd)
    /\ UNCHANGED <<scoreVars, auxVars, engine, rawData, phase, recipes, testGroup>>

Next ==
    \/ \E fetchOk \in BOOLEAN, savedGroup \in {"null", "A", "B", "C"} :
          initializeApp(fetchOk, savedGroup)
    \/ \E emailValid \in BOOLEAN, hash \in 0..2 :
          handleRegistration(emailValid, hash)
    \/ \E input \in SearchInputs : handleSearch(input)

Spec == Init /\ [][Next]_vars

----------------------------------------------------------------------------
(* sustainability.js: the revisions of determineCategory *)

\* categoryKeywords of determineCategory(ingredients, name), in the order
\* Object.entries walks them
categoryKeywords == <<
    [category |-> "salata", keywords |-> <<
        <<"s", "a", "l", "a'", "t", "a">>,
        <<"u", "b", "o", "r", "k", "a">>,
        <<"p", "a", "r", "a", "d", "i", "c", "s", "o", "m">>,
        <<"f", "e", "j", "e", "s">>,
        <<"s", "a", "l", "a'", "t">>,
        <<"r", "e", "t", "e", "k">>,
        <<"p", "a", "p", "r", "i", "k", "a">> >>],
    [category |-> "leves", keywords |-> <<
        <<"l", "e", "v", "e", "s">>,
        <<"h", "u'", "s", "l", "e", "v", "e", "s">>,
        <<"z", "o:", "l", "d", "s", "e'", "g", "l", "e", "v", "e", "s">>,
        <<"k", "r", "e'", "m", "l", "e", "v", "e", "s">>,
        <<"b", "o", "r", "s", "o'", "l", "e", "v", "e", "s">>,
        <<"g", "u", "l", "y", "a'", "s">> >>],
    [category |-> "foetel", keywords |-> <<
        <<"h", "u'", "s">>,
        <<"c", "s", "i", "r", "k", "e">>,
        <<"m", "a", "r", "h", "a">>,
        <<"s", "e", "r", "t", "e'", "s">>,
        <<"h", "a", "l">>,
        <<"s", "c", "h", "n", "i", "t", "z", "e", "l">>,
        <<"p", "o:", "r", "k", "o:", "l", "t">>,
        <<"r", "a", "g", "u">>,
        <<"p", "i", "z", "z", "a">> >>],
    [category |-> "desszert", keywords |-> <<
        <<"t", "o", "r", "t", "a">>,
        <<"s", "u:", "t", "e", "m", "e'", "n", "y">>,
        <<"f", "a", "g", "y", "l", "a", "l", "t">>,
        <<"p", "u", "d", "d", "i", "n", "g">>,
        <<"k", "e", "k", "s", "z">>,
        <<"c", "s", "o", "k", "i">>,
        <<"c", "s", "o", "k", "o", "l", "a'", "d", "e'">>,
        <<"k", "r", "e'", "m", "e", "s">> >>],
    [category |-> "ital", keywords |-> <<
        <<"s", "m", "o", "o", "t", "h", "i", "e">>,
        <<"t", "e", "a">>,
        <<"k", "a'", "v", "e'">>,
        <<"j", "u", "i", "c", "e">>,
        <<"l", "e'">>,
        <<"i", "t", "a", "l">>,
        <<"s", "h", "a", "k", "e">> >>],
    [category |-> "reggeli", keywords |-> <<
        <<"r", "e", "g", "g", "e", "l", "i">>,
        <<"t", "o", "j", "a'", "s">>,
        <<"o", "m", "l", "e", "t", "t">>,
        <<"p", "i", "r", "i'", "t", "o'", "s">>,
        <<"m", "u:", "z", "l", "i">>,
        <<"z", "a", "b", "k", "a'", "s", "a">>,
        <<"p", "a", "n", "c", "a", "k", "e">> >>],
    [category |-> "koret", keywords |-> <<
        <<"k", "o:", "r", "e", "t">>,
        <<"r", "i", "z", "s">>,
        <<"t", "e'", "s", "z", "t", "a">>,
        <<"b", "u", "r", "g", "o", "n", "y", "a">>,
        <<"k", "r", "u", "m", "p", "l", "i">>,
        <<"n", "o", "k", "e", "d", "l", "i">>,
        <<"g", "a", "l", "u", "s", "k", "a">> >>] >>

\* the keywords of list that occur in text
FoundIn(text, list) == {k \in 1..Len(list) : includes(text, list[k])}

\* the sum of the lengths of the keywords of list that occur in text
RECURSIVE lengthScoreFrom(_, _, _)
lengthScoreFrom(text, list, k) ==
    IF k > Len(list) THEN 0
    ELSE (IF includes(text, list[k]) THEN Len(list[k]) ELSE 0)
         + lengthScoreFrom(text, list, k + 1)

lengthScore(text, list) == lengthScoreFrom(text, list, 1)

\* the for loop of determineCategory(ingredients, name) from entry k on:
\* a category replaces the detected one when its score is strictly larger
RECURSIVE detectFrom(_, _, _, _)
detectFrom(text, k, maxScore, detectedCategory) ==
    IF k > Len(categoryKeywords) THEN detectedCategory
    ELSE LET score == lengthScore(text, categoryKeywords[k].keywords)
         IN  IF score > maxScore
             THEN detectFrom(text, k + 1, score, categoryKeywords[k].category)
             ELSE detectFrom(text, k + 1, maxScore, detectedCategory)

\* determineCategory(ingredients, name): the revision that scores by keyword
\* length.  The text is `${ingredients} ${name}`; for a missing ingredients
\* argument it begins with the word "undefined", which holds no keyword.
determineCategoryScored(ingredients, name) ==
    IF ingredients = <<>> /\ name = <<>>
    THEN "egyeb"
    ELSE detectFrom(toLowerCase(ingredients \o <<" ">> \o name), 1, 0, "egyeb")

\* the keywords of the if chain of determineCategory(recipe), in the order
\* of the chain
categoryChain == <<
    [category |-> "foetel", keywords |-> <<
        <<"h", "u'", "s">>,
        <<"c", "s", "i", "r", "k", "e">>,
        <<"s", "e", "r", "t", "e'", "s">>,
        <<"m", "a", "r", "h", "a">> >>],
    [category |-> "leves", keywords |-> <<
        <<"l", "e", "v", "e", "s">>,
        <<"h", "u'", "s", "l", "e", "v", "e", "s">> >>],
    [category |-> "salata", keywords |-> <<
        <<"s", "a", "l", "a'", "t", "a">>,
        <<"u", "b", "o", "r", "k", "a">> >>],
    [category |-> "desszert", keywords |-> <<
        <<"c", "u", "k", "o", "r">>,
        <<"c", "s", "o", "k", "o", "l", "a'", "d", "e'">>,
        <<"t", "o", "r", "t", "a">>,
        <<"s", "u:", "t", "e", "m", "e'", "n", "y">> >>],
    [category |-> "ital", keywords |-> <<
        <<"t", "e", "j">>,
        <<"i", "t", "a", "l">>,
        <<"s", "m", "o", "o", "t", "h", "i", "e">> >>] >>

RECURSIVE chainFrom(_, _)
chainFrom(ingredients, k) ==
    IF k > Len(categoryChain) THEN "egyeb"
    ELSE IF FoundIn(ingredients, categoryChain[k].keywords) # {}
         THEN categoryChain[k].category
         ELSE chainFrom(ingredients, k + 1)

\* determineCategory(recipe): the revision that tests the ingredients
\* against a chain of conditions
determineCategoryChain(recipe) ==
    IF recipe.ingredients = <<>>
    THEN "egyeb"
    ELSE chainFrom(toLowerCase(recipe.ingredients), 1)

\* categoryKeywords of determineCategory(ingredients), in the order
\* Object.entries walks them
categoryKeywordCounts == <<
    [category |-> "salata", keywords |-> <<
        <<"s", "a", "l", "a'", "t", "a">>,
        <<"u", "b", "o", "r", "k", "a">>,
        <<"p", "a", "r", "a", "d", "i", "c", "s", "o", "m">>,
        <<"p", "a", "p", "r", "i", "k", "a">>,
        <<"h", "a", "g", "y", "m", "a">>,
        <<"o", "l", "i'", "v", "a">>,
        <<"s", "a", "l", "a", "d">> >>],
    [category |-> "leves", keywords |-> <<
        <<"l", "e", "v", "e", "s">>,
        <<"s", "o", "u", "p">>,
        <<"k", "r", "e'", "m">>,
        <<"b", "r", "o", "k", "k", "o", "l", "i">>,
        <<"s", "a'", "r", "g", "a", "r", "e'", "p", "a">>,
        <<"z", "e", "l", "l", "e", "r">> >>],
    [category |-> "foetel", keywords |-> <<
        <<"h", "u'", "s">>,
        <<"c", "s", "i", "r", "k", "e">>,
        <<"m", "a", "r", "h", "a">>,
        <<"s", "e", "r", "t", "e'", "s">>,
        <<"h", "a", "l">>,
        <<"p", "a", "s", "t", "a">>,
        <<"r", "i", "z", "s">>,
        <<"b", "u", "r", "g", "o", "n", "y", "a">> >>],
    [category |-> "desszert", keywords |-> <<
        <<"s", "u:", "t", "e", "m", "e'", "n", "y">>,
        <<"t", "o", "r", "t", "a">>,
        <<"c", "s", "o", "k", "o", "l", "a'", "d", "e'">>,
        <<"v", "a", "n", "i'", "l", "i", "a">>,
        <<"c", "u", "k", "o", "r">>,
        <<"t", "e", "j", "s", "z", "i'", "n">>,
        <<"g", "y", "u:", "m", "o:", "l", "c", "s">> >>],
    [category |-> "ital", keywords |-> <<
        <<"s", "m", "o", "o", "t", "h", "i", "e">>,
        <<"j", "u", "i", "c", "e">>,
        <<"t", "e", "a">>,
        <<"k", "a'", "v", "e'">>,
        <<"v", "i'", "z">>,
        <<"t", "e", "j">>,
        <<"d", "r", "i", "n", "k">> >>],
    [category |-> "reggeli", keywords |-> <<
        <<"t", "o", "j", "a'", "s">>,
        <<"b", "a", "c", "o", "n">>,
        <<"s", "o", "n", "k", "a">>,
        <<"s", "a", "j", "t">>,
        <<"t", "o", "a", "s", "t">>,
        <<"m", "u:", "z", "l", "i">>,
        <<"j", "o", "g", "h", "u", "r", "t">> >>],
    [category |-> "koret", keywords |-> <<
        <<"k", "r", "u", "m", "p", "l", "i">>,
        <<"b", "u", "r", "g", "o", "n", "y", "a">>,
        <<"r", "i", "z", "s">>,
        <<"p", "a", "s", "t", "a">>,
        <<"z", "o:", "l", "d", "s", "e'", "g">>,
        <<"b", "a", "b">>,
        <<"l", "e", "n", "c", "s", "e">> >>] >>

\* the reduce over Object.entries(scores) from entry k on; the score of a
\* category is the number of its keywords that occur
RECURSIVE bestFrom(_, _, _)
bestFrom(lowerIngredients, k, best) ==
    IF k > Len(categoryKeywordCounts) THEN best
    ELSE LET score == Cardinality(FoundIn(lowerIngredients,
                                          categoryKeywordCounts[k].keywords))
         IN  bestFrom(lowerIngredients, k + 1,
                      IF score > best.score
                      THEN [category |-> categoryKeywordCounts[k].category,
                            score |-> score]
                      ELSE best)

\* determineCategory(ingredients): the revision that counts keywords
determineCategoryCounted(ingredients) ==
    IF ingredients = <<>>
    THEN "egyeb"
    ELSE LET bestCategory == bestFrom(toLowerCase(ingredients), 1,
                                      [category |-> "egyeb", score |-> 0])
         IN  IF bestCategory.score > 0 THEN bestCategory.category ELSE "egyeb"

----------------------------------------------------------------------------
(* determineCategory called on bounded inputs *)

IngredientInputs == {
    <<>>,
    <<"s", "o'">>,
    <<"u", "b", "o", "r", "k", "a", ",", " ", "s", "a", "l", "a'", "t", "a">>,
    <<"h", "u'", "s", ",", " ", "c", "u", "k", "o", "r", ",", " ", "t", "o", "r", "t", "a">>,
    <<"c", "s", "o", "k", "o", "l", "a'", "d", "e'", ",", " ", "t", "e", "a", ",", " ", "t", "e", "j">>,
    <<"r", "i", "z", "s", ",", " ", "h", "a", "l">>,
    <<"t", "o", "j", "a'", "s", ",", " ", "s", "a", "j", "t">>,
    <<"L", "e", "v", "e", "s">>,
    <<"p", "a", "p", "r", "i", "k", "a", ",", " ", "h", "u'", "s">>,
    <<"k", "r", "u", "m", "p", "l", "i", ",", " ", "b", "a", "b">>,
    <<"m", "e'", "z">>}

NameInputs == {
    <<>>,
    <<"l", "e", "v", "e", "s">>,
    <<"H", "a", "l">>,
    <<"t", "o", "r", "t", "a">>,
    <<"t", "e", "a">>,
    <<"g", "u", "l", "y", "a'", "s">>,
    <<"r", "i", "z", "s">>,
    <<"b", "o", "r", "s">>,
    <<"c", "s", "i", "r", "k", "e">>,
    <<"s", "a", "j", "t">>}

ClassifyInit ==
    /\ IdleScore
    /\ IdleAux
    /\ IdleSearch

\* one call of each revision of determineCategory on the same recipe
Classify(ingredients, name) ==
    /\ classifyCall' =
          [made |-> TRUE, ingredients |-> ingredients, name |-> name,
           scored |-> determineCategoryScored(ingredients, name),
           chain |-> determineCategoryChain(
                        [ingredients |-> ingredients, name |-> name]),
           counted |-> determineCategoryCounted(ingredients)]
    /\ UNCHANGED <<scoreVars, searchVars, evalVars, storeVars, xaiVars,
                   loadVars, lateVars>>

ClassifyNext ==
    \E ingredients \in IngredientInputs, name \in NameInputs :
        Classify(ingredients, name)

SpecClassify == ClassifyInit /\ [][ClassifyNext]_vars

----------------------------------------------------------------------------
(* sustainability.js: evaluateSustainabilityScore *)

\* CONFIG.SUSTAINABILITY.ECO_SCORE_RANGES; min in hundredths, the icons by
\* their names
ECO_SCORE_RANGES == <<
    [min |-> 7500, label |-> "Kivalo fenntarthato valasztas",
     icon |-> "star"],
    [min |-> 6000, label |-> "Jo fenntarthato valasztas",
     icon |-> "check mark"],
    [min |-> 4000, label |-> "Kozepes fenntarthatosagu valasztas",
     icon |-> "scales"],
    [min |-> 0, label |-> "Kevesbe fenntarthato valasztas",
     icon |-> "warning"] >>

\* the label and the icon of a range
Evaluation(range) == [label |-> range.label, icon |-> range.icon]

RECURSIVE evaluateFrom_Strict(_, _)
evaluateFrom_Strict(score, k) ==
    IF k > Len(ECO_SCORE_RANGES)
    THEN Evaluation(ECO_SCORE_RANGES[Len(ECO_SCORE_RANGES)])
    ELSE IF score > ECO_SCORE_RANGES[k].min
         THEN Evaluation(ECO_SCORE_RANGES[k])
         ELSE evaluateFrom_Strict(score, k + 1)

evaluateSustainabilityScore_Strict(score) == evaluateFrom_Strict(score, 1)

\* the for loop over the ranges from range k on, and the return after it
RECURSIVE evaluateFrom(_, _)
evaluateFrom(score, k) ==
    IF k > Len(ECO_SCORE_RANGES)
    THEN Evaluation(ECO_SCORE_RANGES[Len(ECO_SCORE_RANGES)])
    ELSE IF score >= ECO_SCORE_RANGES[k].min
         THEN Evaluation(ECO_SCORE_RANGES[k])
         ELSE evaluateFrom(score, k + 1)

\* evaluateSustainabilityScore(score)
evaluateSustainabilityScore(score) == evaluateFrom(score, 1)

----------------------------------------------------------------------------
(* evaluateSustainabilityScore called on bounded inputs *)

\* every whole score of [0, 100], scores next to the thresholds, scores
\* below 0 and above 100
EvaluateInputs ==
    {100 * k : k \in 0..100}
        \cup {0 - 500, 0 - 10, 10, 3990, 5990, 7490, 7510, 10010, 15000}

EvaluateInit ==
    /\ IdleScore
    /\ IdleAux
    /\ IdleSearch

Evaluate(score) ==
    /\ evalCall' = [made |-> TRUE, score |-> score,
                    result |-> evaluateSustainabilityScore(score)]
    /\ UNCHANGED <<scoreVars, searchVars, classifyVars, storeVars, xaiVars,
                   loadVars, lateVars>>

EvaluateNext == \E score \in EvaluateInputs : Evaluate(score)

SpecEvaluate == EvaluateInit /\ [][EvaluateNext]_vars

----------------------------------------------------------------------------
(* helpers.js: simpleHash; user-manager.js: assignTestGroup *)

\* a 32-bit integer is kept as two 16-bit halves, hi and lo
Half == 65536

\* the characters generateUniqueId produces (base 36 digits and "_"), in the
\* order of their character codes from "0" (48) on; "" marks the codes that
\* are no such character
CodeTable ==
    <<"0", "1", "2", "3", "4", "5", "6", "7", "8", "9",
       "", "", "", "", "", "", "",
       "", "", "", "", "", "", "", "", "", "", "", "", "",
       "", "", "", "", "", "", "", "", "", "", "", "", "",
       "", "", "", "", "_", "",
      "a", "b", "c", "d", "e", "f", "g", "h", "i", "j", "k", "l", "m",
      "n", "o", "p", "q", "r", "s", "t", "u", "v", "w", "x", "y", "z">>

\* str.charCodeAt(i) for the character c
charCodeAt(c) ==
    47 + (CHOOSE k \in 1..Len(CodeTable) : CodeTable[k] = c)

\* hash = ((hash << 5) - hash) + char; hash = hash & hash: 31 * hash + char
\* wrapped to 32 bits, on the two's complement halves of hash
hashStep(hash, char) ==
    LET low == 31 * hash.lo + char
    IN  [hi |-> (31 * hash.hi + low \div Half) % Half, lo |-> low % Half]

RECURSIVE hashFrom(_, _, _)
hashFrom(str, i, hash) ==
    IF i > Len(str) THEN hash
    ELSE hashFrom(str, i + 1, hashStep(hash, charCodeAt(str[i])))

\* return hash, without Math.abs
MathAbs32_Signed(hash) == hash

\* Math.abs of the 32-bit value: a value with the sign bit set is negated
\* (the result of -2^31 is 2^31)
MathAbs32(hash) ==
    IF hash.hi < Half \div 2 THEN hash
    ELSE [hi |-> (Half - 1 - hash.hi) + (IF hash.lo = 0 THEN 1 ELSE 0),
          lo |-> (Half - hash.lo) % Half]

\* simpleHash(str), as halves
simpleHash(str) == MathAbs32(hashFrom(str, 1, [hi |-> 0, lo |-> 0]))

\* hash % n
HashMod(hash, n) == ((hash.hi % n) * (Half % n) + hash.lo) % n

\* assignTestGroup(userId): groups[hash % 3]
assignTestGroup(userId) ==
    <<"A", "B", "C">>[HashMod(simpleHash(userId), 3) + 1]

----------------------------------------------------------------------------
(* user-manager.js, analytics.js: the participant record and the choice log
   in localStorage.  The date fields of the participant record
   (registeredAt, lastLoginAt, lastLogoutAt, lastActivityAt, anonymizedAt)
   are left out; the timestamp of a choice is the value of the clock
   store.now. *)

\* CONFIG.VERSION
VERSION == "2025.06.20"

\* localStorage.getItem of a key that is not set, and what JSON.parse makes
\* of it: null
NullValue == [kind |-> "null"]

\* { ...a, ...b }
Spread(a, b) ==
    [f \in DOMAIN a \cup DOMAIN b |-> IF f \in DOMAIN b THEN b[f] ELSE a[f]]

\* (object[field] || 0) for a counter field that may be missing
CountOf(object, field) ==
    IF field \in DOMAIN object THEN object[field] ELSE 0

\* the object registerUser builds and stores
NewUser(email, userId) ==
    [kind |-> "user",
     id |-> userId,
     email |-> toLowerCase(trim(email)),
     testGroup |-> assignTestGroup(userId),
     version |-> VERSION,
     sessionCount |-> 1]

\* `anonymous_${userData.id.substr(0, 8)}@anonymized.local`
AnonymousEmail(id) ==
    <<"a", "n", "o", "n", "y", "m", "o", "u", "s", "_">>
    \o SubSeq(id, 1, Min2(8, Len(id)))
    \o <<"@", "a", "n", "o", "n", "y", "m", "i", "z", "e", "d", ".",
         "l", "o", "c", "a", "l">>

\* the choiceData object recordUserChoice builds
NewChoice(user, recipeId, rank, now) ==
    [userId |-> user.id,
     userEmail |-> user.email,
     testGroup |-> user.testGroup,
     recipeId |-> recipeId,
     rank |-> rank,
     timestamp |-> now]

\* updateUserStats(userId) on the stored record
updateUserStats(userData, userId) ==
    IF userData.kind = "user" /\ userData.id = userId
    THEN Spread(userData,
                [totalChoices |-> CountOf(userData, "totalChoices") + 1])
    ELSE userData

\* the map of anonymizeUser over the choice log
anonymizeChoices(choices, userData, userId) ==
    [i \in 1..Len(choices) |->
        IF choices[i].userId = userId
        THEN Spread(choices[i],
                    [userEmail |-> userData.email, anonymized |-> TRUE])
        ELSE choices[i]]

\* the user record anonymizeUser stores
anonymizeRecord(userData, userId) ==
    IF userData.kind = "user" /\ userData.id = userId
    THEN Spread(userData, [email |-> AnonymousEmail(userData.id),
                           anonymized |-> TRUE])
    ELSE userData

\* days between two values of the clock
DaysPerTick == 60

\* the filter of cleanupAnalyticsData: a record stays when its timestamp is
\* later than the cutoff date
cleanedChoices(choices, now, maxAge) ==
    SelectSeq(choices,
              LAMBDA choice : choice.timestamp * DaysPerTick
                                  > now * DaysPerTick - maxAge)

----------------------------------------------------------------------------
(* The operations on the store *)

\* the most choices the log holds, the largest session count, the last
\* value of the clock
MaxChoices == 2
MaxSessions == 2
MaxTicks == 1

\* ids generateUniqueId can deliver
IdInputs ==
    {<<"m", "1", "_", "b">>,
     <<"l", "z", "z", "z", "z", "z", "z", "1", "_", "k", "3", "x", "9", "q",
       "2", "a", "7", "b">>}

\* what the registration form can deliver
EmailInputs ==
    {<<>>, <<"b", "c">>, <<" ", "B", "@", "c", " ">>}

\* the argument of updateUser
UpdateInputs ==
    {[testGroup |-> "B"],
     [version |-> "2024.01.01"]}

\* the maxAge argument of cleanupAnalyticsData in days; 90 is the default
MaxAgeInputs == {30, 90}

\* localStorage at the start of a session: no participant; the choice log
\* is not set or is the empty array
StoreInit ==
    /\ IdleScore
    /\ IdleClassify
    /\ IdleEval
    /\ IdleXai
    /\ IdleLoad
    /\ IdleLate
    /\ IdleSearch
    /\ store \in {[user |-> NullValue, choices |-> c, now |-> 0] :
                     c \in {NullValue, ArrayValue(<<>>)}}

StoreUnchanged ==
    UNCHANGED <<scoreVars, searchVars, classifyVars, evalVars, xaiVars,
                loadVars, lateVars>>

\* registerUser(email): throws for an address without "@", otherwise stores
\* the new participant
registerUser(email, userId) ==
    /\ IF email = <<>> \/ ~includes(email, <<"@">>)
       THEN UNCHANGED store
       ELSE store' = [store EXCEPT !.user = NewUser(email, userId)]
    /\ StoreUnchanged

\* checkExistingUser(): brings the version of the stored record up to date
checkExistingUser ==
    /\ IF store.user.kind = "user" /\ store.user.version # VERSION
       THEN store' = [store EXCEPT !.user.version = VERSION]
       ELSE UNCHANGED store
    /\ StoreUnchanged

\* loginUser(user) as the application calls it: on the record
\* checkExistingUser returned
loginUser ==
    /\ store.user.kind = "user"
    /\ CountOf(store.user, "sessionCount") < MaxSessions
    /\ store' = [store EXCEPT
                    !.user = Spread(store.user,
                                    [sessionCount |->
                                        CountOf(store.user, "sessionCount") + 1])]
    /\ StoreUnchanged

\* logoutUser(): stores the record with a new lastLogoutAt, a date field
logoutUser ==
    /\ store' = store
    /\ StoreUnchanged

\* recordUserChoice(user, recipe, rank, ...) as the application calls it: for
\* its current user.  JSON.parse of a log that is not set is null, and
\* null.push throws before anything is stored.
recordUserChoice(recipeId, rank) ==
    /\ IF store.user.kind # "user" \/ store.choices.kind # "array"
       THEN UNCHANGED store
       ELSE /\ Len(store.choices.items) < MaxChoices
            /\ store' =
                  [store EXCEPT
                      !.choices = ArrayValue(
                          Append(store.choices.items,
                                 NewChoice(store.user, recipeId, rank,
                                           store.now))),
                      !.user = updateUserStats(store.user, store.user.id)]
    /\ StoreUnchanged

\* updateUser(updates)
updateUser(updates) ==
    /\ IF store.user.kind = "user"
       THEN store' = [store EXCEPT !.user = Spread(store.user, updates)]
       ELSE UNCHANGED store
    /\ StoreUnchanged

\* the log anonymizeUser stores: nothing new when the log is not set
\* (choices.map throws) or when a choice of userId is met while there is no
\* user record (userData.email throws)
anonymizedLog(userId) ==
    IF store.choices.kind # "array"
    THEN store.choices
    ELSE IF store.user.kind # "user"
            /\ \E i \in 1..Len(store.choices.items) :
                   store.choices.items[i].userId = userId
         THEN store.choices
         ELSE ArrayValue(anonymizeChoices(store.choices.items,
                                          anonymizeRecord(store.user, userId),
                                          userId))

\* anonymizeUser(userId)
anonymizeUser(userId) ==
    /\ store' = [store EXCEPT !.user = anonymizeRecord(store.user, userId),
                              !.choices = anonymizedLog(userId)]
    /\ StoreUnchanged

\* cleanupAnalyticsData(maxAge): throws on a log that is not set
cleanupAnalyticsData(maxAge) ==
    /\ IF store.choices.kind = "array"
       THEN store' = [store EXCEPT
                         !.choices = ArrayValue(
                             cleanedChoices(store.choices.items, store.now,
                                            maxAge))]
       ELSE UNCHANGED store
    /\ StoreUnchanged

\* clearUserChoices(): removeItem
clearUserChoices ==
    /\ store' = [store EXCEPT !.choices = NullValue]
    /\ StoreUnchanged

\* time passes
Tick ==
    /\ store.now < MaxTicks
    /\ store' = [store EXCEPT !.now = store.now + 1]
    /\ StoreUnchanged

StoreNext ==
    \/ \E email \in EmailInputs, userId \in IdInputs :
          registerUser(email, userId)
    \/ checkExistingUser
    \/ loginUser
    \/ logoutUser
    \/ \E recipeId \in 1..2 : recordUserChoice(recipeId, 1)
    \/ \E updates \in UpdateInputs : updateUser(updates)
    \/ \E userId \in IdInputs : anonymizeUser(userId)
    \/ \E maxAge \in MaxAgeInputs : cleanupAnalyticsData(maxAge)
    \/ clearUserChoices
    \/ Tick

SpecStore == StoreInit /\ [][StoreNext]_vars

----------------------------------------------------------------------------
(* xai-explainer.js: the explanation of a score *)

\* CONFIG.XAI: the hard timeout and the number of retries the configuration
\* names
TIMEOUT_MS == 30000
MAX_RETRIES == 3

\* simulateXaiApi: the keyword lists
meatIngredients == <<
    <<"c", "s", "i", "r", "k", "e">>,
    <<"m", "a", "r", "h", "a">>,
    <<"s", "e", "r", "t", "e'", "s">>,
    <<"h", "a", "l">>,
    <<"h", "u'", "s">>,
    <<"k", "o", "l", "b", "a'", "s", "z">> >>

\* processed food
processedIndicators == <<
    <<"k", "o", "n", "z", "e", "r", "v">>,
    <<"f", "e", "l", "d", "o", "l", "g", "o", "z", "o", "t", "t">>,
    <<"i", "n", "s", "t", "a", "n", "t">>,
    <<"e", "l", "o~", "k", "e'", "s", "z", "i'", "t", "e", "t", "t">> >>

\* seasonal and local food
seasonalIngredients == <<
    <<"s", "z", "e", "z", "o", "n", "a'", "l", "i", "s">>,
    <<"h", "e", "l", "y", "i">>,
    <<"f", "r", "i", "s", "s">> >>

\* healthy food
healthyIngredients == <<
    <<"z", "o:", "l", "d", "s", "e'", "g">>,
    <<"g", "y", "u:", "m", "o:", "l", "c", "s">>,
    <<"t", "e", "l", "j", "e", "s", " ", "k", "i", "o~", "r", "l", "e'", "s", "u~">>,
    <<"h", "a", "l">>,
    <<"h", "u:", "v", "e", "l", "y", "e", "s">> >>

\* sugar
sugarIndicators == <<
    <<"c", "u", "k", "o", "r">>,
    <<"m", "e'", "z">>,
    <<"s", "z", "i", "r", "u", "p">> >>

\* protein
proteinSources == <<
    <<"h", "u'", "s">>,
    <<"h", "a", "l">>,
    <<"t", "o", "j", "a'", "s">>,
    <<"t", "e", "j">>,
    <<"s", "a", "j", "t">>,
    <<"b", "a", "b">>,
    <<"l", "e", "n", "c", "s", "e">>,
    <<"t", "o", "f", "u">> >>

\* fat
fatSources == <<
    <<"o", "l", "a", "j">>,
    <<"v", "a", "j">>,
    <<"z", "s", "i'", "r">>,
    <<"s", "z", "a", "l", "o", "n", "n", "a">>,
    <<"t", "e", "j", "s", "z", "i'", "n">> >>

\* the recipes an explanation is asked for: complete ones and ones without
\* ingredients, environmental score or nutrition score
XaiRecipes == <<
    [recipeid |-> 1, name |-> <<"m", "a", "r", "h", "a", "p", "o:", "r", "k", "o:", "l", "t">>,
     ingredients |-> <<"m", "a", "r", "h", "a", ",", " ", "h", "a", "g", "y", "m", "a", ",", " ", "p", "a", "p", "r", "i", "k", "a">>,
     env_score |-> 7000, nutri_score |-> 4000, category |-> "foetel"],
    [recipeid |-> 2, name |-> <<"b", "a", "b", "l", "e", "v", "e", "s">>,
     ingredients |-> <<"c", "(", "\"", "b", "a", "b", "\"", ",", " ", "\"", "f", "r", "i", "s", "s", " ", "z", "o:", "l", "d", "s", "e'", "g", "\"", ",", " ", "\"", "s", "o'", "\"", ")">>,
     env_score |-> 2000, nutri_score |-> 8000, category |-> "leves"],
    [recipeid |-> 3, name |-> <<"t", "o", "r", "t", "a">>,
     ingredients |-> <<"c", "u", "k", "o", "r", ",", " ", "v", "a", "j", ",", " ", "t", "o", "j", "a'", "s">>,
     env_score |-> 4000, nutri_score |-> 3000, category |-> "desszert"],
    [recipeid |-> 4, name |-> <<"v", "i'", "z">>,
     ingredients |-> <<>>,
     env_score |-> 3000, nutri_score |-> 5000, category |-> "ital"],
    [recipeid |-> 5, name |-> <<"h", "a", "l", "s", "a", "l", "a'", "t", "a">>,
     ingredients |-> <<"h", "a", "l", ",", " ", "k", "o", "n", "z", "e", "r", "v", " ", "b", "a", "b">>,
     env_score |-> 0, nutri_score |-> 6000, category |-> "salata"],
    [recipeid |-> 6, name |-> <<"m", "u:", "z", "l", "i">>,
     ingredients |-> <<"i", "n", "s", "t", "a", "n", "t", " ", "z", "a", "b", ",", " ", "m", "e'", "z">>,
     env_score |-> 5000, nutri_score |-> Undefined, category |-> ""],
    [recipeid |-> 7, name |-> <<"l", "e", "c", "s", "o'">>,
     ingredients |-> <<"p", "a", "p", "r", "i", "k", "a", ",", " ", "o", "l", "a", "j", ",", " ", "s", "o'">>,
     env_score |-> 3000, nutri_score |-> 6000, category |-> ""] >>

\* the properties of an explanation object
ExplanationFields ==
    {"summary", "environmentalFactors", "nutritionalFactors", "suggestions",
     "confidence"}

Factor(name, impact, importance, explanation) ==
    [name |-> name, impact |-> impact, importance |-> importance,
     explanation |-> explanation]

\* .replace(/^c\(|\)$/g, '')
stripListWrapper(s) ==
    LET head == IF Len(s) >= 2 /\ s[1] = "c" /\ s[2] = "("
                THEN SubSeq(s, 3, Len(s)) ELSE s
    IN  IF head # <<>> /\ head[Len(head)] = ")"
        THEN SubSeq(head, 1, Len(head) - 1) ELSE head

\* prepareRecipeData; the pieces between commas are trimmed and the empty
\* ones dropped, so that a run of commas counts like one comma
prepareRecipeData(recipe) ==
    LET unwrapped == stripListWrapper(toLowerCase(recipe.ingredients))
        unquoted == RemoveChars(unwrapped, {"\""})
        parts == split(unquoted, {","})
    IN  [id |-> recipe.recipeid,
         name |-> recipe.name,
         ingredients |-> SelectSeqLen(TrimAll(parts), 1),
         category |-> IF recipe.category = "" THEN "egyeb"
                      ELSE recipe.category,
         envScore |-> OrElse(recipe.env_score, 0),
         nutriScore |-> OrElse(recipe.nutri_score, 0)]

\* ingredients.some(ing => list.some(k => ing.includes(k)))
someIncludes(ingredients, list) ==
    \E i \in 1..Len(ingredients), k \in 1..Len(list) :
        includes(ingredients[i], list[k])

\* simulateXaiApi: categoryImpact
categoryImpact ==
    [salata |-> Factor("salata kategoria", "pozitiv", 35, "sok novenyi osszetevo"),
     leves |-> Factor("leves kategoria", "pozitiv", 30, "hatekony felhasznalas"),
     foetel |-> Factor("foetel kategoria", "negativ", 25, "gyakran hus"),
     desszert |-> Factor("desszert kategoria", "negativ", 40, "sok cukor")]

\* array.sort((a, b) => b.importance - a.importance); the importances of
\* the factors of one list are all different
RECURSIVE insertByImportance(_, _)
insertByImportance(sorted, x) ==
    IF sorted = <<>> THEN <<x>>
    ELSE IF x.importance > sorted[1].importance
         THEN <<x>> \o sorted
         ELSE <<sorted[1]>> \o insertByImportance(Tail(sorted), x)

RECURSIVE sortByImportance(_)
sortByImportance(factors) ==
    IF factors = <<>> THEN <<>>
    ELSE insertByImportance(sortByImportance(SubSeq(factors, 1, Len(factors) - 1)),
                            factors[Len(factors)])

\* factors.reduce((sum, factor) => sum + sign(impact) * importance, 0)
RECURSIVE impactSum(_)
impactSum(factors) ==
    IF factors = <<>> THEN 0
    ELSE (CASE factors[1].impact = "pozitiv" -> factors[1].importance
            [] factors[1].impact = "negativ" -> 0 - factors[1].importance
            [] OTHER -> 0)
         + impactSum(Tail(factors))

\* the factor when the condition holds
When(condition, factor) == IF condition THEN <<factor>> ELSE <<>>

simulatedExplanation(environmentalFactors, nutritionalFactors, hasMeat, hasProcessed, hasHighSugar, hasHealthy) ==
    LET environmentalImpactSum == impactSum(environmentalFactors)
        nutritionalImpactSum == impactSum(nutritionalFactors)
    IN  [success |-> TRUE,
         environmentalFactors |-> sortByImportance(environmentalFactors),
         nutritionalFactors |-> sortByImportance(nutritionalFactors),
         suggestions |->
             When(environmentalImpactSum < 0 /\ hasMeat,
                  "kevesebb allati eredetu osszetevo")
             \o When(environmentalImpactSum < 0 /\ hasProcessed,
                     "friss, feldolgozatlan osszetevok")
             \o When(nutritionalImpactSum < 0 /\ hasHighSugar,
                     "kevesebb hozzaadott cukor")
             \o When(nutritionalImpactSum < 0 /\ ~hasHealthy,
                     "tobb zoldseg vagy gyumolcs"),
         summary |->
             IF environmentalImpactSum > 0 /\ nutritionalImpactSum > 0
             THEN "kornyezeti es taplalkozasi szempontbol is kedvezo"
             ELSE IF environmentalImpactSum > 0
             THEN "kornyezeti szempontbol kedvezo"
             ELSE IF nutritionalImpactSum > 0
             THEN "taplalkozasi erteke jo"
             ELSE "mindket szempontbol fejlesztheto",
         model |-> "XAI-LIME-Simulator-v1",
         confidence |-> 82]

\* simulateXaiApi: what the promise resolves with
simulateXaiApi(recipeData) ==
    LET ingredients == recipeData.ingredients
        hasMeat == someIncludes(ingredients, meatIngredients)
        hasProcessed == someIncludes(ingredients, processedIndicators)
        hasSeasonal == someIncludes(ingredients, seasonalIngredients)
        hasHealthy == someIncludes(ingredients, healthyIngredients)
        hasHighSugar == someIncludes(ingredients, sugarIndicators)
        hasProtein == someIncludes(ingredients, proteinSources)
        hasFat == someIncludes(ingredients, fatSources)
    IN  simulatedExplanation(
            (IF hasMeat
             THEN <<Factor("allati eredetu osszetevok", "negativ", 65,
                           "magasabb kornyezeti terheles")>>
             ELSE <<Factor("novenyi alapu osszetetel", "pozitiv", 58,
                           "kisebb kornyezeti terheles")>>)
            \o When(hasProcessed,
                    Factor("feldolgozott osszetevok", "negativ", 42,
                           "tobb energia es eroforras"))
            \o When(hasSeasonal,
                    Factor("szezonalis osszetevok", "pozitiv", 38,
                           "kisebb szallitasi igeny"))
            \o When(recipeData.category \in DOMAIN categoryImpact,
                    categoryImpact[recipeData.category]),
            When(hasHealthy,
                 Factor("egeszseges osszetevok", "pozitiv", 55,
                        "tapanyagban gazdag"))
            \o When(hasHighSugar,
                    Factor("magas cukortartalom", "negativ", 48,
                           "csokkenti a taplalkozasi erteket"))
            \o When(hasProtein,
                    Factor("feherjeforrasok", "pozitiv", 42,
                           "jo feherjeforrasok"))
            \o When(hasFat,
                    Factor("zsirtartalom", "semleges", 35,
                           "mertekkel fogyasztva"))
            \o When(Len(ingredients) > 8,
                    Factor("osszetevok valtozatossaga", "pozitiv", 25,
                           "tobbfele tapanyag")),
            hasMeat, hasProcessed, hasHighSugar, hasHealthy)

\* generateFallbackExplanation; undefined > 50 is false
generateFallbackExplanation(recipe) ==
    [success |-> FALSE,
     environmentalFactors |->
         <<Factor("altalanos hatas",
                  IF recipe.env_score # Undefined /\ recipe.env_score > 5000
                  THEN "negativ" ELSE "pozitiv",
                  100, "altalanos kornyezeti hatas")>>,
     nutritionalFactors |->
         <<Factor("tapanyagtartalom",
                  IF recipe.nutri_score # Undefined /\ recipe.nutri_score > 5000
                  THEN "pozitiv" ELSE "negativ",
                  100, "altalanos taplalkozasi ertek")>>,
     suggestions |-> <<"reszletes magyarazat nem elerheto">>,
     summary |-> "egyszerusitett ertekeles",
     model |-> "Fallback-Explainer",
     confidence |-> 50]

\* the time the model follows a pending request, and the step of its clock,
\* in milliseconds
MaxClock == 40000
TickMs == 10000

\* what the body of a provider response can be: an explanation, another
\* JSON object, the JSON text null, or text that is not JSON
BodyInputs == {"explanation", "object", "null", "html"}

\* the HTTP status of a provider response
StatusInputs == {200, 404, 500}

\* an explanation as the provider writes it
ProviderExplanation ==
    [success |-> TRUE,
     environmentalFactors |->
         <<Factor("szallitas", "negativ", 70, "hosszu szallitasi ut")>>,
     nutritionalFactors |-> <<>>,
     suggestions |-> <<"helyi alapanyagok">>,
     summary |-> "a szolgaltato ertekelese",
     model |-> "gpt-4",
     confidence |-> 90]

\* response.json(): the parsed body; text that is not JSON throws
JsonThrows(body) == body = "html"
responseJson(body) ==
    CASE body = "explanation" -> ProviderExplanation
      [] body = "object" -> [error |-> "rate limit"]
      [] body = "null" -> NullValue

Resolved(value) == [kind |-> "value", value |-> value]

\* the recipe of the request
XaiRecipe == XaiRecipes[xai.recipe]

XaiInit ==
    /\ IdleScore
    /\ IdleClassify
    /\ IdleEval
    /\ IdleStore
    /\ IdleLoad
    /\ IdleLate
    /\ IdleSearch
    /\ xai \in {[pc |-> "idle", useRealApi |-> b, recipe |-> 0, calls |-> 0,
                 clock |-> 0, local |-> [kind |-> "none"],
                 result |-> [kind |-> "none"]] : b \in BOOLEAN}

XaiUnchanged ==
    UNCHANGED <<scoreVars, searchVars, classifyVars, evalVars, storeVars,
                loadVars, lateVars>>

\* the catch block of getExplanation
catchError ==
    xai' = [xai EXCEPT !.pc = "resolved",
                       !.result = Resolved(generateFallbackExplanation(XaiRecipe))]

\* getExplanation up to its first await: the fallback for an incomplete
\* recipe, otherwise the fetch of callExternalXaiApi is started, or
\* simulateXaiApi works out its factors, summary and suggestions (kept in
\* local) and starts its timer
getExplanation(r) ==
    /\ xai.pc = "idle"
    /\ LET recipe == XaiRecipes[r]
       IN  IF recipe.ingredients = <<>> \/ Falsy(recipe.env_score)
              \/ Falsy(recipe.nutri_score)
           THEN xai' = [xai EXCEPT
                           !.pc = "resolved", !.recipe = r,
                           !.result = Resolved(generateFallbackExplanation(recipe))]
           ELSE IF xai.useRealApi
           THEN xai' = [xai EXCEPT !.pc = "fetch", !.recipe = r,
                                   !.calls = xai.calls + 1]
           ELSE xai' = [xai EXCEPT
                           !.pc = "timer", !.recipe = r,
                           !.local = Resolved(simulateXaiApi(prepareRecipeData(recipe)))]
    /\ XaiUnchanged

\* the fetch promise rejects: network error
fetchRejects ==
    /\ xai.pc = "fetch"
    /\ catchError
    /\ XaiUnchanged

\* the fetch promise resolves with a response: callExternalXaiApi throws
\* unless response.ok, and otherwise waits for response.json()
fetchResolves(status) ==
    /\ xai.pc = "fetch"
    /\ IF status >= 200 /\ status <= 299
       THEN xai' = [xai EXCEPT !.pc = "json"]
       ELSE catchError
    /\ XaiUnchanged

\* response.json() settles; getExplanation returns what it delivers
jsonSettles(body) ==
    /\ xai.pc = "json"
    /\ IF JsonThrows(body)
       THEN catchError
       ELSE xai' = [xai EXCEPT !.pc = "resolved",
                               !.result = Resolved(responseJson(body))]
    /\ XaiUnchanged

\* the 500 ms timer of simulateXaiApi fires: the explanation is returned
timerFires ==
    /\ xai.pc = "timer"
    /\ xai' = [xai EXCEPT !.pc = "resolved", !.result = xai.local]
    /\ XaiUnchanged

\* time passes while the request is pending; nothing in getExplanation or
\* callExternalXaiApi reads the clock
xaiTick ==
    /\ xai.pc \in {"fetch", "json", "timer"}
    /\ xai.clock < MaxClock
    /\ xai' = [xai EXCEPT !.clock = xai.clock + TickMs]
    /\ XaiUnchanged

XaiNext ==
    \/ \E r \in 1..Len(XaiRecipes) : getExplanation(r)
    \/ fetchRejects
    \/ \E status \in StatusInputs : fetchResolves(status)
    \/ \E body \in BodyInputs : jsonSettles(body)
    \/ timerFires
    \/ xaiTick

SpecXai == XaiInit /\ [][XaiNext]_vars

\* timers fire and time passes; nothing obliges the provider to answer
SpecXaiLive == SpecXai /\ WF_vars(timerFires) /\ WF_vars(xaiTick)

----------------------------------------------------------------------------
(* data-loader.js: the request of the catalog file *)

\* the entries of RawPool at the indices of S, in the order of RawPool
RECURSIVE SelectRaw(_, _)
SelectRaw(S, i) ==
    IF i > Len(RawPool) THEN <<>>
    ELSE (IF i \in S THEN <<RawPool[i]>> ELSE <<>>) \o SelectRaw(S, i + 1)

\* what response.json() can deliver for the catalog file: an array of at
\* most MaxRaw records, or null; "html" is a body that is not JSON
LoadBodies ==
    {[kind |-> "array", items |-> SelectRaw(S, 1)] :
        S \in {T \in SUBSET (1..Len(RawPool)) : Cardinality(T) <= MaxRaw}}
    \cup {[kind |-> "null", items |-> <<>>], [kind |-> "html", items |-> <<>>]}

LoadInit ==
    /\ IdleScore
    /\ IdleClassify
    /\ IdleEval
    /\ IdleStore
    /\ IdleXai
    /\ IdleLate
    /\ IdleSearch
    /\ IdleLoad

LoadUnchanged ==
    UNCHANGED <<scoreVars, searchVars, classifyVars, evalVars, storeVars,
                xaiVars, lateVars>>

\* the catch block of loadRecipeData without its return: the error goes on
\* to the caller
catchLoadError_Rethrow(cause) ==
    load' = [load EXCEPT !.pc = "rejected", !.cause = cause, !.result = Thrown]

\* the catch block of loadRecipeData
catchLoadError(cause) ==
    load' = [load EXCEPT !.pc = "resolved", !.cause = cause,
                         !.result = Returned(loadFallbackData)]

\* loadRecipeData up to await fetch(dataSource)
loadFetch ==
    /\ load.pc = "idle"
    /\ load' = [load EXCEPT !.pc = "fetch"]
    /\ LoadUnchanged

\* the fetch promise rejects: the file cannot be reached
loadFetchRejects ==
    /\ load.pc = "fetch"
    /\ catchLoadError("network error")
    /\ LoadUnchanged

\* the fetch promise resolves: unless response.ok an Error is thrown inside
\* the try block
loadFetchResolves(status) ==
    /\ load.pc = "fetch"
    /\ IF status >= 200 /\ status <= 299
       THEN load' = [load EXCEPT !.pc = "json"]
       ELSE catchLoadError("status")
    /\ LoadUnchanged

\* response.json() settles: it throws for a body that is not JSON, and
\* recipes.length throws for null; otherwise the parsed body is returned
loadJsonSettles(body) ==
    /\ load.pc = "json"
    /\ CASE body.kind = "html" -> catchLoadError("not JSON")
         [] body.kind = "null" -> catchLoadError("null")
         [] OTHER -> load' = [load EXCEPT !.pc = "resolved", !.cause = "ok",
                                          !.result = Returned(body.items)]
    /\ LoadUnchanged

\* initializeApp: this.recipes = prepareRecipes(rawData)
loadPrepare ==
    /\ load.pc = "resolved"
    /\ load' = [load EXCEPT !.pc = "prepared",
                            !.recipes = prepareRecipes(load.result.value)]
    /\ LoadUnchanged

LoadNext ==
    \/ loadFetch
    \/ loadFetchRejects
    \/ \E status \in StatusInputs : loadFetchResolves(status)
    \/ \E body \in LoadBodies : loadJsonSettles(body)
    \/ loadPrepare

SpecLoad == LoadInit /\ [][LoadNext]_vars

----------------------------------------------------------------------------
(* data-loader.js, both revisions of prepareRecipes, on arrays with entries
   that are not recipe objects *)

\* what reading the recipe properties of a primitive value delivers
NoProperties ==
    [recipeid |-> Undefined, name |-> <<>>, ingredients |-> <<>>,
     env_score |-> Undefined, nutri_score |-> Undefined,
     sustainability_index |-> Undefined, category |-> ""]

ObjectEntry(recipe) == [kind |-> "object", rec |-> recipe]
NullEntry == [kind |-> "null", rec |-> NoProperties]
NumberEntry == [kind |-> "number", rec |-> NoProperties]

\* parseFloat(x) || 50
parseFloatOr50(x) == IF x = Undefined \/ x = 0 THEN 5000 ELSE x

\* normalizeCategory: categoryMap[normalized] || normalized
normalizeCategory(category) ==
    CASE category = "" -> "egyeb"
      [] category = "soup" -> "leves"
      [] category = "salad" -> "salata"
      [] category \in {"main", "main_course"} -> "foetel"
      [] category = "dessert" -> "desszert"
      [] category \in {"drink", "beverage"} -> "ital"
      [] category = "breakfast" -> "reggeli"
      [] category \in {"side", "side_dish"} -> "koret"
      [] category = "appetizer" -> "eloetel"
      [] OTHER -> category

\* Math.max(0, Math.min(100, x)) when x is outside 0..100
clampScore(x) == IF x = NaN THEN NaN ELSE Max2(0, Min2(10000, x))

\* validateRecipe: ok is FALSE when it throws
validateRecipe(recipe) ==
    IF \/ Falsy(recipe.recipeid) \/ recipe.recipeid <= 0
       \/ trim(recipe.name) = <<>>
       \/ trim(recipe.ingredients) = <<>>
    THEN [ok |-> FALSE, recipe |-> recipe]
    ELSE [ok |-> TRUE,
          recipe |-> [recipe EXCEPT
                         !.env_score = clampScore(@),
                         !.nutri_score = clampScore(@),
                         !.sustainability_index = clampScore(@)]]

\* prepareRecipe
prepareRecipe(rawRecipe) ==
    LET category == normalizeCategory(rawRecipe.category)
        env_score == parseFloatOr50(rawRecipe.env_score)
        nutri_score == parseFloatOr50(rawRecipe.nutri_score)
    IN  validateRecipe(
            [recipeid |-> OrElse(rawRecipe.recipeid, 0),
             name |-> IF rawRecipe.name = <<>>
                      THEN <<"N", "e'", "v", "t", "e", "l", "e", "n", " ",
                             "r", "e", "c", "e", "p", "t">>
                      ELSE rawRecipe.name,
             ingredients |-> rawRecipe.ingredients,
             category |-> category,
             env_score |-> env_score,
             nutri_score |-> nutri_score,
             sustainability_index |->
                 IF Falsy(rawRecipe.sustainability_index)
                    /\ ~Falsy(rawRecipe.env_score)
                    /\ ~Falsy(rawRecipe.nutri_score)
                 THEN calculateSustainabilityScore(env_score, nutri_score,
                                                   category)
                 ELSE parseFloatOr50(rawRecipe.sustainability_index)])

\* rawRecipes.map(...).filter(recipe => recipe !== null) from entry k on
RECURSIVE preparedFrom(_, _)
preparedFrom(rawRecipes, k) ==
    IF k > Len(rawRecipes) THEN <<>>
    ELSE LET prepared == prepareRecipe(rawRecipes[k].rec)
         IN  (IF prepared.ok THEN <<prepared.recipe>> ELSE <<>>)
             \o preparedFrom(rawRecipes, k + 1)

\* prepareRecipes of the validating revision: prepareRecipe(null) throws
\* inside try, and the catch block reads recipe.recipeid, which throws again
prepareRecipesValidating(rawRecipes) ==
    IF \E k \in 1..Len(rawRecipes) : rawRecipes[k].kind = "null"
    THEN Thrown
    ELSE Returned(preparedFrom(rawRecipes, 1))

\* prepareRecipes of the revision the application imports: the forEach
\* callback reads recipe.env_score, which throws for null
prepareRecipesLoose(items) ==
    IF \E k \in 1..Len(items) : items[k].kind = "null"
    THEN Thrown
    ELSE Returned(prepareRecipes([k \in 1..Len(items) |-> items[k].rec]))

\* the entries of the arrays prepareRecipes is called with
PrepPool == <<
    ObjectEntry(RawPool[1]),
    ObjectEntry(RawPool[2]),
    ObjectEntry([RawPool[2] EXCEPT !.recipeid = 0]),
    ObjectEntry([RawPool[1] EXCEPT !.recipeid = 0 - 3]),
    ObjectEntry([RawPool[2] EXCEPT !.recipeid = 8, !.name = <<>>]),
    ObjectEntry([RawPool[1] EXCEPT !.recipeid = 9, !.ingredients = <<>>]),
    NumberEntry,
    NullEntry >>

\* the longest array
MaxEntries == 3

PrepInputs ==
    UNION {[1..n -> 1..Len(PrepPool)] : n \in 0..MaxEntries}

PrepInit ==
    /\ IdleScore
    /\ IdleSearch
    /\ IdleAux

\* one call of each revision of prepareRecipes on the same array
PrepareRecipes(picks) ==
    /\ LET entries == [k \in 1..Len(picks) |-> PrepPool[picks[k]]]
       IN  prepCall' = [made |-> TRUE, picks |-> picks,
                        validating |-> prepareRecipesValidating(entries),
                        loose |-> prepareRecipesLoose(entries)]
    /\ UNCHANGED <<earlyVars, uiVars, retryVars, hashVars, recordVars>>

PrepNext == \E picks \in PrepInputs : PrepareRecipes(picks)

SpecPrep == PrepInit /\ [][PrepNext]_vars

----------------------------------------------------------------------------
(* ui-components.js: the explanation cache *)

\* the recipe ids of the cards shown, and how many times getExplanation is
\* followed per id
CardIds == {1, 2}
MaxRequests == 3

NoEntry == [kind |-> "none", call |-> 0]

\* what getExplanation resolves with: an explanation of the provider or of
\* the simulator, the fallback explanation, or null (the provider's body
\* was the JSON text null)
ExplanationKinds == {"explanation", "fallback", "null"}

\* xaiExplanationCache[recipe.recipeid] && CONFIG.XAI.CACHE_RESULTS
cacheHit(id) == ui.cacheResults /\ ui.cache[id].kind \notin {"none", "null"}

CacheInit ==
    /\ IdleScore
    /\ IdleSearch
    /\ IdleClassify /\ IdleEval /\ IdleStore /\ IdleXai /\ IdleLoad
    /\ IdlePrep /\ IdleRetry /\ IdleHash /\ IdleRecord
    /\ ui \in {[started |-> TRUE, cacheResults |-> b,
                cache |-> [id \in CardIds |-> NoEntry],
                shown |-> [id \in CardIds |-> NoEntry],
                calls |-> [id \in CardIds |-> 0],
                pending |-> {}] : b \in BOOLEAN}

CacheUnchanged ==
    UNCHANGED <<earlyVars, prepVars, retryVars, hashVars, recordVars>>

\* generateAndDisplayXAI up to its await: without the container of the card
\* nothing happens; a cache hit is rendered at once; otherwise getExplanation
\* is called
generateAndDisplayXAI(id, containerFound) ==
    /\ ui.started
    /\ IF ~containerFound
       THEN UNCHANGED ui
       ELSE IF cacheHit(id)
       THEN ui' = [ui EXCEPT !.shown[id] = ui.cache[id]]
       ELSE /\ ui.calls[id] < MaxRequests
            /\ ui' = [ui EXCEPT
                         !.calls[id] = @ + 1,
                         !.pending = @ \cup {[id |-> id, call |-> ui.calls[id] + 1]}]
    /\ CacheUnchanged

\* getExplanation resolves for a request in flight: the value is stored
\* under the recipe id when caching is on, and rendered
explanationArrives(request, kind) ==
    /\ ui.started
    /\ request \in ui.pending
    /\ LET entry == [kind |-> kind, call |-> request.call]
       IN  ui' = [ui EXCEPT
                     !.cache[request.id] = IF ui.cacheResults THEN entry ELSE @,
                     !.shown[request.id] = entry,
                     !.pending = @ \ {request}]
    /\ CacheUnchanged

CacheNext ==
    \/ \E id \in CardIds, containerFound \in BOOLEAN :
          generateAndDisplayXAI(id, containerFound)
    \/ \E id \in CardIds, call \in 1..MaxRequests, kind \in ExplanationKinds :
          explanationArrives([id |-> id, call |-> call], kind)

SpecCache == CacheInit /\ [][CacheNext]_vars

----------------------------------------------------------------------------
(* recordUserChoice on every state of the choice log *)

\* a stored string JSON.parse rejects
TextValue == [kind |-> "text"]

\* safeJsonParse(str, defaultValue) of helpers.js: the default is returned
\* only when JSON.parse throws; JSON.parse(null) is null
safeJsonParse(value, defaultValue) ==
    IF value.kind = "text" THEN defaultValue ELSE value

\* recordUserChoice(user, recipe, rank, ...) on the store s: how the call
\* ends, the value it returns (<<>> for null) and the store it leaves
recordUserChoiceOn(s, user, recipeId, rank) ==
    IF user.kind # "user"
    THEN [outcome |-> "returned", value |-> <<>>, store |-> s]
    ELSE LET choiceData == NewChoice(user, recipeId, rank, s.now)
             existingChoices == safeJsonParse(s.choices, ArrayValue(<<>>))
         IN  IF existingChoices.kind # "array"
             THEN [outcome |-> "thrown", value |-> <<>>, store |-> s]
             ELSE [outcome |-> "returned",
                   value |-> <<choiceData>>,
                   store |->
                       [s EXCEPT
                           !.choices = ArrayValue(
                               Append(existingChoices.items, choiceData)),
                           !.user = updateUserStats(s.user, user.id)]]

\* the ranks a choice is recorded with
RankInputs == 1..3

\* a registered participant; the choice log is not set, is text that does
\* not parse, or is the empty array
RecordInit ==
    /\ IdleScore
    /\ IdleClassify
    /\ IdleEval
    /\ IdleXai
    /\ IdleLoad
    /\ IdlePrep /\ IdleUi /\ IdleRetry /\ IdleHash /\ IdleRecord
    /\ IdleSearch
    /\ store \in {[user |-> NewUser(<<" ", "B", "@", "c", " ">>, userId),
                   choices |-> c,
                   now |-> t] :
                     userId \in IdInputs,
                     c \in {NullValue, TextValue, ArrayValue(<<>>)},
                     t \in 0..MaxTicks}

\* one call of recordUserChoice for the current user
RecordUserChoice(recipeId, rank) ==
    /\ store.choices.kind = "array" => Len(store.choices.items) < MaxChoices
    /\ LET call == recordUserChoiceOn(store, store.user, recipeId, rank)
       IN  /\ recordCall' = [made |-> TRUE,
                             outcome |-> call.outcome,
                             value |-> call.value]
           /\ store' = call.store
    /\ UNCHANGED <<scoreVars, searchVars, classifyVars, evalVars, xaiVars,
                   loadVars, prepVars, uiVars, retryVars, hashVars>>

RecordNext ==
    \E recipeId \in 1..2, rank \in RankInputs :
        RecordUserChoice(recipeId, rank)

SpecRecord == RecordInit /\ [][RecordNext]_vars

----------------------------------------------------------------------------
(* helpers.js: retry *)

\* the largest maxRetries argument; 3 is the default of the parameter
MaxRetriesArg == 3

\* the delayMs argument; 1000 is the default of the parameter
DelayInputs == {1000}

\* what fn can resolve with
FnResults == {"first", "second"}

\* what fn can reject with: two Error objects, and the values undefined
\* and null (reject() without an argument)
FnErrors == {"Error1", "Error2", "undefined", "null"}

\* error.message: reading a property of undefined or null throws a TypeError
messageThrows(error) == error \in {"undefined", "null"}

\* Math.pow(2, i)
MathPow2(i) == 2 ^ i

RetryInit ==
    /\ IdleScore
    /\ IdleSearch
    /\ IdleClassify
    /\ IdleEval
    /\ IdleStore
    /\ IdleXai
    /\ IdleLoad
    /\ IdlePrep /\ IdleUi /\ IdleHash /\ IdleRecord
    /\ IdleRetry

RetryUnchanged == UNCHANGED <<earlyVars, prepVars, uiVars, hashVars, recordVars>>

\* retry(fn, maxRetries, delayMs) up to the first await: lastError is not
\* set, i = 0, fn is called
retry(maxRetries, delayMs) ==
    /\ retryCall.pc = "idle"
    /\ retryCall' = [pc |-> "calling",
                     maxRetries |-> maxRetries,
                     delayMs |-> delayMs,
                     i |-> 0,
                     lastError |-> "undefined",
                     calls |-> 1,
                     log |-> <<>>,
                     waited |-> <<>>,
                     result |-> "none"]
    /\ RetryUnchanged

\* the promise of fn() resolves: return await fn()
fnResolves(value) ==
    /\ retryCall.pc = "calling"
    /\ retryCall' = [retryCall EXCEPT
                        !.pc = "resolved",
                        !.log = Append(@, [kind |-> "resolved",
                                           value |-> value]),
                        !.result = value]
    /\ RetryUnchanged

\* the promise of fn() rejects: the catch block, and after the last
\* iteration throw lastError
fnRejects(error) ==
    /\ retryCall.pc = "calling"
    /\ LET caught == [retryCall EXCEPT
                         !.lastError = error,
                         !.log = Append(@, [kind |-> "rejected",
                                            value |-> error])]
       IN  retryCall' =
               IF retryCall.i < retryCall.maxRetries
               THEN IF messageThrows(error)
                    THEN [caught EXCEPT !.pc = "rejected",
                                        !.result = "TypeError"]
                    ELSE [caught EXCEPT
                             !.pc = "delaying",
                             !.waited = Append(@, retryCall.delayMs
                                                    * MathPow2(retryCall.i))]
               ELSE [caught EXCEPT !.pc = "rejected",
                                   !.i = retryCall.i + 1,
                                   !.result = error]
    /\ RetryUnchanged

\* the timer of delay() fires: i++ and the next call of fn
delayElapses ==
    /\ retryCall.pc = "delaying"
    /\ retryCall' = [retryCall EXCEPT !.pc = "calling",
                                      !.i = @ + 1,
                                      !.calls = @ + 1]
    /\ RetryUnchanged

RetryNext ==
    \/ \E maxRetries \in 0..MaxRetriesArg, delayMs \in DelayInputs :
          retry(maxRetries, delayMs)
    \/ \E value \in FnResults : fnResolves(value)
    \/ \E error \in FnErrors : fnRejects(error)
    \/ delayElapses

SpecRetry == RetryInit /\ [][RetryNext]_vars

----------------------------------------------------------------------------
(* simpleHash and assignTestGroup on id strings *)

\* the longest id built from IdAlphabet
MaxIdLen == 3

IdAlphabet == {"0", "a", "z"}

\* the ids hashed: the short strings over IdAlphabet, the ids of the store,
\* and an id whose running hash ends at -2^31
MinInt32Id == <<"9", "i", "a", "z", "i", "p", "p">>

HashIds ==
    UNION {[1..n -> IdAlphabet] : n \in 0..MaxIdLen}
        \cup IdInputs \cup {MinInt32Id}

HashInit ==
    /\ IdleScore
    /\ IdleSearch
    /\ IdleClassify
    /\ IdleEval
    /\ IdleStore
    /\ IdleXai
    /\ IdleLoad
    /\ IdlePrep /\ IdleUi /\ IdleRetry /\ IdleRecord
    /\ IdleHash

\* one call of assignTestGroup(userId); the call before it is kept
AssignTestGroup(userId) ==
    /\ hashCall' = [made |-> TRUE,
                    id |-> userId,
                    running |-> hashFrom(userId, 1, [hi |-> 0, lo |-> 0]),
                    hash |-> simpleHash(userId),
                    group |-> assignTestGroup(userId),
                    before |-> IF hashCall.made
                               THEN <<[id |-> hashCall.id,
                                       group |-> hashCall.group]>>
                               ELSE <<>>]
    /\ UNCHANGED <<earlyVars, prepVars, uiVars, retryVars, recordVars>>

HashNext == \E userId \in HashIds : AssignTestGroup(userId)

SpecHash == HashInit /\ [][HashNext]_vars

----------------------------------------------------------------------------
(* searchRecipes on catalogs whose recipes lie close to each other *)

\* recipes with the same ingredients, so with the same match score for a
\* query, whose sustainability indices lie two points apart
ClosePool == <<
    [recipeid |-> 21, name |-> <<"a">>,
     ingredients |-> <<"s", "o'">>,
     env_score |-> 5000, nutri_score |-> 7000, sustainability_index |-> 7200,
     category |-> "leves"],
    [recipeid |-> 22, name |-> <<"b">>,
     ingredients |-> <<"s", "o'">>,
     env_score |-> 4000, nutri_score |-> 7000, sustainability_index |-> 7000,
     category |-> "leves"],
    [recipeid |-> 23, name |-> <<"c">>,
     ingredients |-> <<"s", "o'">>,
     env_score |-> 3000, nutri_score |-> 7000, sustainability_index |-> 6800,
     category |-> "leves"],
    [recipeid |-> 24, name |-> <<"d">>,
     ingredients |-> <<"s", "o'">>,
     env_score |-> 6000, nutri_score |-> 5000, sustainability_index |-> 5000,
     category |-> "leves"] >>

\* the catalogs: every selection of pool entries in every order
OrderInit ==
    /\ IdleScore
    /\ IdleAux
    /\ engine \in Engines
    /\ rawData = <<>>
    /\ phase = "call"
    /\ recipes \in {ArrayValue([i \in 1..Len(p) |-> ClosePool[p[i]]]) :
                       p \in {q \in UNION {[1..n -> 1..Len(ClosePool)] :
                                              n \in 0..Len(ClosePool)} :
                                 \A i, j \in 1..Len(q) :
                                     q[i] = q[j] => i = j}}
    /\ query \in {StringValue(<<"s", "o'">>), StringValue(<<"h", "a", "l">>)}
    /\ testGroup \in {"B", "C"}
    /\ outcome = NotCalled
    /\ repeats = 0

SpecOrder == OrderInit /\ [][SearchNext]_vars

----------------------------------------------------------------------------
(* Properties of the scorer (SpecScore) *)

\* C1: for every numeric env and nutri, in range or not, and every category,
\* known or not, the sustainability score lies in [0, 100]; both the
\* three-argument scorer and the recipe-object (legacy) scorer.
C1_ScoreInRange ==
    scoreCall.made =>
        /\ scoreCall.score \in 0..10000
        /\ scoreCall.legacy \in 0..10000

\* a >= b of two scores; no comparison with NaN holds
ScoreGeq(a, b) == a # NaN /\ b # NaN /\ a >= b

\* C2: the score is monotone over the whole input range, 0 and out-of-range
\* values included: with nutri and category fixed a larger env never gives a
\* larger score, with env and category fixed a larger nutri never gives a
\* smaller score; for each revision of the scorer.
C2_Monotone ==
    (scorePrev.made /\ scoreCall.made
        /\ scorePrev.category = scoreCall.category) =>
        /\ (scorePrev.nutri = scoreCall.nutri /\ scorePrev.env <= scoreCall.env)
            => /\ ScoreGeq(scorePrev.score, scoreCall.score)
               /\ ScoreGeq(scorePrev.legacy, scoreCall.legacy)
        /\ (scorePrev.env = scoreCall.env /\ scorePrev.nutri <= scoreCall.nutri)
            => /\ ScoreGeq(scoreCall.score, scorePrev.score)
               /\ ScoreGeq(scoreCall.legacy, scorePrev.legacy)

\* C3: for all env, nutri and category the score of the three-argument
\* scorer equals
\*   clamp((100 - clamp(env,0,100)) * 0.6 + clamp(nutri,0,100) * 0.4
\*          + modifier(category), 0, 100)
\* rounded to one decimal place, modifier being the entry of the static
\* per-category table and 0 for a category that is not in it; and
\* score(25.5, 78.2, leves) = 79.0.
C3_ScoreFormula ==
    scoreCall.made =>
        LET clamp(x) == IF x < 0 THEN 0 ELSE IF x > 10000 THEN 10000 ELSE x
            modifier == IF scoreCall.category \in DOMAIN CATEGORY_MODIFIERS
                        THEN CATEGORY_MODIFIERS[scoreCall.category] ELSE 0
            weighted == ((10000 - clamp(scoreCall.env)) * 6
                         + clamp(scoreCall.nutri) * 4) \div 10
            final == clamp(weighted + modifier)
            rounded == CHOOSE r \in {10 * k : k \in 0..1000} :
                          2 * r - 10 <= 2 * final /\ 2 * final < 2 * r + 10
        IN  /\ scoreCall.score = rounded
            /\ (scoreCall.env = 2550 /\ scoreCall.nutri = 7820
                    /\ scoreCall.category = "leves")
                => scoreCall.score = 7900

----------------------------------------------------------------------------
(* Properties of searchRecipes (SpecSearch) *)

\* recipes.items as a set
CatalogSet == {recipes.items[i] : i \in 1..Len(recipes.items)}

\* how often the recipe id occurs in a result list
IdCount(list, id) == Cardinality({i \in 1..Len(list) : list[i].recipeid = id})

SameIds(list1, list2) ==
    \A id \in 1..Len(RecipePool) : IdCount(list1, id) = IdCount(list2, id)

\* C4: the list searchRecipes returns for group C is sorted by
\* sustainability index first: whenever a is placed before b, a's
\* sustainability index is >= b's, whatever their relevance.
C4_SustainabilityFirst ==
    (outcome.status = "returned" /\ testGroup = "C") =>
        \A i, j \in 1..Len(outcome.value) :
            (i < j /\ ~Falsy(outcome.value[i].sustainability_index)
                   /\ ~Falsy(outcome.value[j].sustainability_index))
            => outcome.value[i].sustainability_index
                   >= outcome.value[j].sustainability_index

\* C5: for a fixed catalog and query the multiset of recipe ids returned for
\* group A equals the one returned for group B and the one returned for
\* group C, for every outcome of the shuffle and also when more recipes
\* match than MAX_RESULTS.
C5_SameMembership ==
    (outcome.status = "returned" /\ testGroup = "A") =>
        /\ SameIds(outcome.value,
                   searchRecipes(recipes, query, "B", engine, <<>>).value)
        /\ SameIds(outcome.value,
                   searchRecipes(recipes, query, "C", engine, <<>>).value)

\* C6: for a non-empty catalog and a query with a term of at least two
\* characters searchRecipes returns a non-empty list in every group, also
\* when no recipe matches a term.
C6_NonEmptyResult ==
    (outcome.status # "none" /\ recipes.kind = "array" /\ recipes.items # <<>>
        /\ testGroup \in {"A", "B", "C"}
        /\ preprocessSearchQuery(query) # <<>>) =>
        outcome.status = "returned" /\ outcome.value # <<>>

\* C7: searchRecipes returns at most CONFIG.SEARCH.MAX_RESULTS recipes and
\* every returned recipe is an element of the catalog.
C7_BoundedSubset ==
    outcome.status = "returned" =>
        /\ Len(outcome.value) <= MAX_RESULTS
        /\ \A i \in 1..Len(outcome.value) : outcome.value[i] \in CatalogSet

\* C7 witness: more recipes matched than MAX_RESULTS and exactly
\* MAX_RESULTS were returned.
C7_Truncated ==
    /\ outcome.status = "returned"
    /\ Len(Candidates(recipes, query)) > MAX_RESULTS
    /\ Len(outcome.value) = MAX_RESULTS

\* C8: searchRecipes never throws: for any catalog, query and group it
\* returns an array, the empty one when the catalog or the query is invalid.
C8_NeverThrows ==
    outcome.status # "none" =>
        /\ outcome.status = "returned"
        /\ (recipes.kind # "array" \/ recipes.items = <<>>
                \/ query.kind # "string" \/ query.str = <<>>)
            => outcome.value = <<>>

----------------------------------------------------------------------------
(* Properties of the application (Spec) *)

\* C9: for groups B and C two runs of searchRecipes on the identical
\* catalog and the identical query return the identical ordered list: a
\* search that repeats the query of the search before it leaves the result
\* as it was.
C9_SameOrderOnRepeat ==
    [][(phase = "ready" /\ testGroup \in {"B", "C"}
            /\ outcome.status = "returned" /\ query' = query)
        => outcome' = outcome]_vars

\* C9 witness: in group B or C a search has repeated the query of the
\* search before it and returned two recipes or more.
C9_RepeatedRun ==
    /\ phase = "ready"
    /\ testGroup \in {"B", "C"}
    /\ repeats >= 1
    /\ outcome.status = "returned"
    /\ Len(outcome.value) >= 2

\* C10: after prepareRecipes every recipe of the catalog carries the
\* sustainability index the scorer gives for the env score, nutri score and
\* category the prepared recipe carries (by the recipe-object scorer that
\* prepareRecipes calls or by the three-argument scorer), whatever the raw
\* record supplied and whether the category was supplied or classified; and
\* this stays so during later searches.
C10_IndexIsScore ==
    phase \in {"registration", "ready"} =>
        \A i \in 1..Len(recipes.items) :
            LET r == recipes.items[i]
            IN  \/ r.sustainability_index
                      = calculateSustainabilityScoreLegacy(r)
                \/ r.sustainability_index
                      = calculateSustainabilityScore(r.env_score,
                                                     r.nutri_score,
                                                     r.category)

\* a score field that is missing or <= 0
NoScore(x) == OrElse(x, 0) <= 0

\* the normal formula on a record, a missing score taken as 0; the modifier
\* is the one of the category the record carries
NormalFormula(r) ==
    calculateSustainabilityScore(OrElse(r.env_score, 0),
                                 OrElse(r.nutri_score, 0), r.category)

\* the records of list whose recipeid is id
WithId(list, id) == {i \in 1..Len(list) : list[i].recipeid = id}

\* C11 for the raw list loaded and the catalog prepared from it
ExcludesOnlyBoth(loaded, prepared) ==
    \A i \in 1..Len(loaded) :
        LET raw == loaded[i]
            kept == WithId(prepared, raw.recipeid)
        IN  /\ (kept = {}) <=> (NoScore(raw.env_score) /\ NoScore(raw.nutri_score))
            /\ (NoScore(raw.env_score) # NoScore(raw.nutri_score)) =>
                  \A j \in kept :
                      \/ prepared[j].sustainability_index
                            = NormalFormula(prepared[j])
                      \/ prepared[j].sustainability_index = NormalFormula(raw)

\* C11: prepareRecipes excludes a recipe if and only if both env_score and
\* nutri_score are missing or <= 0; a recipe with exactly one of them missing
\* or <= 0 stays in the catalog and its sustainability index is the normal
\* formula with the missing value taken as 0.
C11_ExcludeOnlyBothMissing ==
    [][(phase = "boot" /\ phase' # "boot") =>
          \E loaded \in {rawData, loadFallbackData} :
              /\ recipes'.items = prepareRecipes(loaded)
              /\ ExcludesOnlyBoth(loaded, recipes'.items)]_vars

\* C12: every recipe of the prepared catalog has a category of the fixed set
\* {salata, leves, foetel, desszert, ital, reggeli, koret, egyeb}, whether the
\* raw record supplied the category or determineCategory assigned it.
C12_CategoryInFixedSet ==
    phase \in {"registration", "ready"} =>
        \A i \in 1..Len(recipes.items) :
            recipes.items[i].category \in Categories

----------------------------------------------------------------------------
(* Properties of determineCategory (SpecClassify) *)

\* the name plus ingredient text of the last call
ClassifiedText ==
    toLowerCase(classifyCall.ingredients \o <<" ">> \o classifyCall.name)

\* the largest length score a category of table has on text
MaxLengthScore(text, table) ==
    LET scores == {lengthScore(text, table[k].keywords) : k \in 1..Len(table)}
    IN  CHOOSE m \in scores : \A x \in scores : x <= m

\* result is a category of table with the largest length score when that
\* score is not 0, and egyeb exactly when it is 0
MaximalCategory(result, text, table) ==
    LET max == MaxLengthScore(text, table)
    IN  /\ max > 0 =>
              \E k \in 1..Len(table) :
                  /\ table[k].category = result
                  /\ lengthScore(text, table[k].keywords) = max
        /\ (result = "egyeb") <=> (max = 0)

\* C13: determineCategory returns a category whose score (the sum of the
\* lengths of its keywords found in the name plus ingredient text) is
\* maximal among all categories whenever that maximum is nonzero, and egyeb
\* exactly when no keyword of any category occurs in the text; for each
\* revision of determineCategory with the keywords of that revision.
C13_MaximalLengthScore ==
    classifyCall.made =>
        /\ MaximalCategory(classifyCall.scored, ClassifiedText,
                           categoryKeywords)
        /\ MaximalCategory(classifyCall.chain, ClassifiedText, categoryChain)
        /\ MaximalCategory(classifyCall.counted, ClassifiedText,
                           categoryKeywordCounts)

----------------------------------------------------------------------------
(* Properties of evaluateSustainabilityScore (SpecEvaluate) *)

\* the ranges whose min threshold is <= score
BandsAtMost(score) ==
    {k \in 1..Len(ECO_SCORE_RANGES) : ECO_SCORE_RANGES[k].min <= score}

\* the range of set with the largest min threshold
HighestBand(set) ==
    CHOOSE k \in set :
        \A j \in set : ECO_SCORE_RANGES[j].min <= ECO_SCORE_RANGES[k].min

\* the range with the smallest min threshold
LowestBand ==
    CHOOSE k \in 1..Len(ECO_SCORE_RANGES) :
        \A j \in 1..Len(ECO_SCORE_RANGES) :
            ECO_SCORE_RANGES[k].min <= ECO_SCORE_RANGES[j].min

\* C14: evaluateSustainabilityScore returns a defined label and icon for
\* every finite score, 0 and 100 included: those of the band with the
\* highest min threshold that is <= score, and those of the lowest band when
\* the score lies below every threshold.
C14_EvaluateBand ==
    evalCall.made =>
        LET band == IF BandsAtMost(evalCall.score) # {}
                    THEN HighestBand(BandsAtMost(evalCall.score))
                    ELSE LowestBand
        IN  /\ evalCall.result.label = ECO_SCORE_RANGES[band].label
            /\ evalCall.result.icon = ECO_SCORE_RANGES[band].icon
            /\ evalCall.result.label # "" /\ evalCall.result.icon # ""

\* C14 witness: a score below every threshold has been evaluated and got
\* the label of the lowest band.
C14_BelowEveryThreshold ==
    /\ evalCall.made
    /\ BandsAtMost(evalCall.score) = {}
    /\ evalCall.result.label = "Kevesbe fenntarthato valasztas"

----------------------------------------------------------------------------
(* Properties of the store (SpecStore) *)

\* C15: in every state of the stored participant record after registration
\* (through any sequence of checkExistingUser, loginUser, logoutUser,
\* recordUserChoice, updateUser and anonymizeUser) testGroup is the group
\* assigned at registration: assignTestGroup of the participant's id.
C15_GroupNeverChanges ==
    store.user.kind = "user" =>
        store.user.testGroup = assignTestGroup(store.user.id)

\* a is b with some elements left out
RECURSIVE IsSubsequence(_, _)
IsSubsequence(a, b) ==
    IF a = <<>> THEN TRUE
    ELSE IF b = <<>> THEN FALSE
    ELSE IF Head(a) = Head(b) THEN IsSubsequence(Tail(a), Tail(b))
    ELSE IsSubsequence(a, Tail(b))

\* C16: the stored choice log is append-only: after any operation on the
\* store every choice record written earlier is still in the log,
\* field for field unchanged and in the same relative order.
C16_AppendOnlyLog ==
    [][(store.choices.kind = "array" /\ store.choices.items # <<>>) =>
          /\ store'.choices.kind = "array"
          /\ IsSubsequence(store.choices.items, store'.choices.items)]_vars

----------------------------------------------------------------------------
(* Properties of the explainer (SpecXai, SpecXaiLive) *)

\* an object with the properties of an Explanation
WellFormedExplanation(v) == ExplanationFields \subseteq DOMAIN v

\* C17: whatever the provider does (answer, network error, status that is
\* not 2xx, body that is not an explanation), getExplanation does not
\* reject, and the value it resolves with has summary, environmentalFactors,
\* nutritionalFactors, suggestions and confidence
C17_AlwaysWellFormed ==
    /\ xai.pc \in {"idle", "fetch", "json", "timer", "resolved"}
    /\ xai.pc = "resolved" =>
           /\ xai.result.kind = "value"
           /\ WellFormedExplanation(xai.result.value)

\* C18: every call of getExplanation that waits (for the provider or for the
\* timer) eventually completes, also when the provider never answers
C18_EventuallyCompletes ==
    (xai.pc \in {"fetch", "json", "timer"}) ~> (xai.pc = "resolved")

\* the value is the deterministic fallback explanation
IsFallback(result) ==
    /\ result.kind = "value"
    /\ "model" \in DOMAIN result.value
    /\ result.value.model = "Fallback-Explainer"

\* C19: when a provider call fails, the fallback explanation is returned
\* only after the call was retried MAX_RETRIES times, that is after
\* MAX_RETRIES + 1 calls of the provider
C19_FallbackAfterLastRetry ==
    [][(xai.pc \in {"fetch", "json"} /\ xai'.pc = "resolved"
        /\ IsFallback(xai'.result)) => xai.calls = MAX_RETRIES + 1]_vars

----------------------------------------------------------------------------
(* Properties of the catalog request (SpecLoad) *)

----------------------------------------------------------------------------
(* Properties of prepareRecipes on arbitrary arrays (SpecPrep) *)

\* an entry the catalog can use: an object with a positive id, a name and
\* ingredients
ValidEntry(entry) ==
    /\ entry.kind = "object"
    /\ ~Falsy(entry.rec.recipeid) /\ entry.rec.recipeid > 0
    /\ trim(entry.rec.name) # <<>>
    /\ trim(entry.rec.ingredients) # <<>>

\* the ids of the valid entries, in the order of the array
RECURSIVE ValidIds(_, _)
ValidIds(picks, k) ==
    IF k > Len(picks) THEN <<>>
    ELSE (IF ValidEntry(PrepPool[picks[k]])
          THEN <<PrepPool[picks[k]].rec.recipeid>> ELSE <<>>)
         \o ValidIds(picks, k + 1)

IdsOf(list) == [k \in 1..Len(list) |-> list[k].recipeid]

DropsInvalid(result, picks) ==
    /\ result.status = "returned"
    /\ IdsOf(result.value) = ValidIds(picks, 1)

\* C21: for every array, with entries without id, name or ingredients and
\* entries that are null or no objects, prepareRecipes returns without
\* throwing, and what it returns are the valid records in source order
C21_DropsInvalidRecords ==
    prepCall.made =>
        /\ DropsInvalid(prepCall.validating, prepCall.picks)
        /\ DropsInvalid(prepCall.loose, prepCall.picks)

\* the value was produced by the rule-based simulator or by the fallback
RuleBased(result) ==
    /\ result.kind = "value"
    /\ "model" \in DOMAIN result.value
    /\ result.value.model \in {"XAI-LIME-Simulator-v1", "Fallback-Explainer"}

\* C22: every explanation of the rule-based simulator and of the fallback
\* carries at least 1 and at most 3 suggestions
C22_SuggestionCount ==
    (xai.pc = "resolved" /\ RuleBased(xai.result)) =>
        Len(xai.result.value.suggestions) \in 1..3

----------------------------------------------------------------------------
(* Further properties of searchRecipes (SpecSearch) *)

\* C23: the call of searchRecipes leaves the catalog as it was: the same
\* recipes, in the same order, with the same fields
C23_CatalogUnchanged ==
    [][(outcome = NotCalled /\ outcome' # NotCalled) => recipes' = recipes]_vars

\* the position of the recipe with this id in the catalog
CatalogPosition(id) ==
    CHOOSE i \in 1..Len(recipes.items) : recipes.items[i].recipeid = id

\* C23: a search of group B or C has returned two recipes in another order
\* than the catalog lists them
C23_Reordered ==
    /\ outcome.status = "returned"
    /\ testGroup \in {"B", "C"}
    /\ \E i, j \in 1..Len(outcome.value) :
          /\ i < j
          /\ outcome.value[i].recipeid # Undefined
          /\ outcome.value[j].recipeid # Undefined
          /\ CatalogPosition(outcome.value[i].recipeid)
                 > CatalogPosition(outcome.value[j].recipeid)

----------------------------------------------------------------------------
(* Properties of the explanation cache (SpecCache) *)

\* C24: with caching on, an entry of the explanation cache is never removed
\* or replaced, and from then on getExplanation is not called for its id
C24_EntryKept ==
    [][\A id \in CardIds :
          (ui.started /\ ui.cacheResults
           /\ ui.cache[id].kind \in {"explanation", "fallback"}) =>
              /\ ui'.cache[id] = ui.cache[id]
              /\ ui'.calls[id] = ui.calls[id]]_vars

\* C28: with caching on, getExplanation is called at most once per recipe
\* id, also when requests for the same id overlap
C28_OneCallPerRecipe ==
    (ui.started /\ ui.cacheResults) => \A id \in CardIds : ui.calls[id] <= 1

\* C29: the explanation cache never holds a fallback explanation
C29_NoFallbackCached ==
    ui.started => \A id \in CardIds : ui.cache[id].kind # "fallback"


----------------------------------------------------------------------------
(* Properties of recordUserChoice (SpecRecord) *)

\* C25: a call of recordUserChoice with a user and a recipe does not throw,
\* returns the choice record, and that record is the last element of the
\* stored choice log, whatever the log held before (not set, text that does
\* not parse, an array).
C25_ChoiceRecorded ==
    recordCall.made =>
        /\ recordCall.outcome = "returned"
        /\ recordCall.value # <<>>
        /\ store.choices.kind = "array"
        /\ store.choices.items # <<>>
        /\ store.choices.items[Len(store.choices.items)] = recordCall.value[1]

----------------------------------------------------------------------------
(* Properties of retry (SpecRetry) *)

\* every call of fn before the last one was rejected
EarlierCallsFailed ==
    \A k \in 1..(Len(retryCall.log) - 1) : retryCall.log[k].kind = "rejected"

\* C26: retry has at most one call of fn in flight and never makes more than
\* maxRetries + 1 calls; when it resolves, it resolves with the result of the
\* first call that succeeded and that call was the last one made; when it
\* rejects, all of the maxRetries + 1 calls failed and it rejects with the
\* error of the last of them.
C26_BoundedRetry ==
    retryCall.pc # "idle" =>
        /\ retryCall.calls - Len(retryCall.log) \in {0, 1}
        /\ retryCall.calls <= retryCall.maxRetries + 1
        /\ retryCall.pc = "resolved" =>
              /\ retryCall.calls = Len(retryCall.log)
              /\ EarlierCallsFailed
              /\ retryCall.log[Len(retryCall.log)]
                     = [kind |-> "resolved", value |-> retryCall.result]
        /\ retryCall.pc = "rejected" =>
              /\ retryCall.calls = retryCall.maxRetries + 1
              /\ retryCall.calls = Len(retryCall.log)
              /\ EarlierCallsFailed
              /\ retryCall.log[Len(retryCall.log)]
                     = [kind |-> "rejected", value |-> retryCall.result]

----------------------------------------------------------------------------
(* Properties of simpleHash and assignTestGroup (SpecHash) *)

\* the halves of a value in 0 .. 2^31
NonNegative32(hash) ==
    /\ hash.hi \in 0..(Half \div 2)
    /\ hash.lo \in 0..(Half - 1)
    /\ hash.hi = Half \div 2 => hash.lo = 0

\* C27: simpleHash(id) is an integer in 0 .. 2^31 for every id, also when the
\* running hash ends at -2^31; assignTestGroup(id) is one of A, B, C, and two
\* calls with the same id give the same group.
C27_GroupOfHash ==
    hashCall.made =>
        /\ NonNegative32(hashCall.hash)
        /\ hashCall.group \in {"A", "B", "C"}
        /\ hashCall.group
               = <<"A", "B", "C">>[HashMod(hashCall.hash, 3) + 1]
        /\ \A call \in {hashCall.before[k] : k \in DOMAIN hashCall.before} :
               call.id = hashCall.id => call.group = hashCall.group

\* the id whose running hash ends at -2^31 was hashed twice in a row
C27_MinInt32Hashed ==
    /\ hashCall.made
    /\ hashCall.id = MinInt32Id
    /\ hashCall.running = [hi |-> Half \div 2, lo |-> 0]
    /\ hashCall.hash = [hi |-> Half \div 2, lo |-> 0]
    /\ hashCall.group = "C"
    /\ hashCall.before = <<[id |-> MinInt32Id, group |-> "C"]>>

----------------------------------------------------------------------------
(* Properties of the comparison functions (SpecSearch) *)

\* a is ranked before b by the comparison function of the strategy
RanksBefore(strategy, a, b) == Compare(strategy, a, b) < 0

\* the comparison function is a consistent ordering of the candidates: never
\* a before b and b before a, and transitive
ConsistentOrdering(strategy, candidates) ==
    LET S == {candidates[i] : i \in 1..Len(candidates)}
    IN  \A a \in S, b \in S :
           /\ ~(RanksBefore(strategy, a, b) /\ RanksBefore(strategy, b, a))
           /\ \A c \in S :
                  RanksBefore(strategy, a, b) /\ RanksBefore(strategy, b, c)
                      => RanksBefore(strategy, a, c)

\* the candidates in every order a permutation of the catalog gives them
CandidateOrders(candidates) ==
    {[i \in 1..Len(candidates) |-> candidates[p[i]]] :
        p \in Permutations(1..Len(candidates))}

\* the place of the match result x in the list ranked
PlaceOf(ranked, x) == CHOOSE i \in 1..Len(ranked) : ranked[i] = x

\* C30: for groups B and C the comparison function is a consistent ordering
\* of the candidates, and in whatever order the catalog lists the
\* candidates, two candidates the comparison function distinguishes come
\* out in the same relative order.
C30_OrderIndependent ==
    (outcome.status = "returned" /\ testGroup \in {"B", "C"}) =>
        LET candidates == Candidates(recipes, query)
            ranked == ArraySort(candidates, testGroup, engine)
        IN  /\ ConsistentOrdering(testGroup, candidates)
            /\ \A order \in CandidateOrders(candidates) :
                  LET permuted == ArraySort(order, testGroup, engine)
                  IN  \A i, j \in 1..Len(candidates) :
                         Compare(testGroup, candidates[i], candidates[j]) # 0
                            => (PlaceOf(ranked, candidates[i])
                                   < PlaceOf(ranked, candidates[j])
                                <=> PlaceOf(permuted, candidates[i])
                                       < PlaceOf(permuted, candidates[j]))
====
